---- MODULE Spec2Model ----
(***************************************************************************)
(* The intent pipeline of noelukwa/gitindexer.                            *)
(*                                                                         *)
(*   Manager  (internal/manager, Service): CreateIntent,                   *)
(*            UpdateIntentStatus, ResetIntentStartDate, StartBroadCast,    *)
(*            over the postgres store (pgStore + the sqlc queries).        *)
(*   Scout    (cmd/discovery): processMessage / broadcastIntents over a    *)
(*            redis keyspace.                                              *)
(*   Harvester(cmd/monitor): handleMessage, the two fetches, the two       *)
(*            resolvers and main's shutdown; the Manager's ingestion of    *)
(*            what the Harvester publishes.                                *)
(*                                                                         *)
(* Time is an integer clock.  A repository name is a sequence of one-      *)
(* character strings, so that strings.Split is computed, not assumed.      *)
(***************************************************************************)
EXTENDS Integers, Sequences, FiniteSets, TLC

\* ------------------------------------------------------------------ bounds
MaxIntents == 2      \* uuids the Manager may draw (CreateIntent calls that reach uuid.NewRandom)
MaxNow == 2          \* the clock runs over 1..MaxNow
MaxNameLen == 3      \* repository identifiers up to this length are tried
MaxHandlers == 2     \* Service calls in flight at once
MaxWorkers == 2      \* Harvester handleMessage goroutines in flight at once
MaxQueue == 2        \* commands waiting on discovery.yields at once
MaxCommits == 3      \* commits the code-hosting API hands out in all
BatchSize == 2       \* batchSize, scaled down from the code's 100
LockTTL == 2         \* lockTTL in ticks of the redis clock (the code's is ten minutes)
MaxHashes == 2       \* commit hashes the ingested commands draw from
MaxBatch == 3        \* commits of one ingested new_commits command
MaxFault == 12       \* statements the database answers before one fails

\* ------------------------------------------------------ program constants
IntentsChanCap == 1  \* make(chan *events.IntentCommand, 1)
ZeroTime == 0        \* time.Time{}: a field the code never sets
ZeroValue == 0       \* the zero int64 and the empty string of a field the code never sets
RepoChanCap == 1     \* make(chan *github.Repository, 1)
MaxRetries == 3      \* maxRetries

PendingBroadCast == "pending_broadcast"
SuccessBroadCast == "success_broadcast"
IntentStatusEnum == {PendingBroadCast, SuccessBroadCast}

NewIntentKind == "new_intent"
UpdateIntentKind == "update_intent"
CancelIntentKind == "cancel_intent"

\* An error is a tuple of strings: the sentinel, or the wrapping messages and the cause.
ErrNone == <<>>
ErrInvalidRepository == <<"ErrInvalidRepository">>
ErrInvalidStartDate == <<"ErrInvalidStartDate">>
ErrIntentNotFound == <<"ErrIntentNotFound">>
ErrExistingIntent == <<"ErrExistingIntent">>
ErrNoRows == <<"pgx.ErrNoRows">>
ErrInvalidEnum == <<"pg: invalid input value for enum intent_status">>
ErrStore == <<"store error">>
ErrUUID == <<"uuid error">>

\* ------------------------------------------------------------ input sets
Chars == {"o", "/"}
Ids == 1..MaxIntents
Dates == 1..(MaxNow + 1)
Handlers == 1..MaxHandlers
Workers == 1..MaxWorkers

RECURSIVE SeqsUpTo(_, _)
SeqsUpTo(S, n) ==
    IF n = 0 THEN {<<>>}
    ELSE LET shorter == SeqsUpTo(S, n - 1)
         IN  shorter \cup {Append(s, c) : s \in shorter, c \in S}

RepoNames == SeqsUpTo(Chars, MaxNameLen)

VARIABLES
    now,            \* time.Now()
    intents,        \* the intents table: id -> row
    nextId,         \* the next uuid
    intentsChan,    \* Service.intentsChan
    hs,             \* per in-flight Service call: its position and locals
    bpc,            \* StartBroadCast: its position and the command in hand
    ctxCancelled,   \* the Manager's context
    intentsQueue,   \* the broker queue cfg.IntentsQueueName (discovery.intents)
    publishedLog,   \* every command the broadcast loop has published, in order
    scoutStore,     \* the Scout's redis keys intent:<owner>:<name> and their values
    scoutCancelled, \* the keys whose last processed new_intent or cancel_intent was a cancel_intent
    sweep,          \* the Scout's ticker goroutine: its position and the intents in hand
    yieldsQueue,    \* the broker queue the Scout publishes to (discovery.yields)
    locks,          \* the Harvester's redis keys lock:<owner>.<name>
    workers,        \* per Harvester handleMessage goroutine: its position and locals
    commitsChan,    \* the Harvester's commitsChan
    repoChan,       \* the Harvester's repoChan
    cres,           \* commitsResolver: its position, its batch, the publish in hand
    rres,           \* repoResolver: its position and the publish in hand
    monitorQueue,   \* the broker queue the Harvester publishes to (monitor.yields)
    proc,           \* the Harvester process: context cancelled, channels closed, panicked
    fetched,        \* commits the code-hosting API has handed out so far
    tables,         \* the Manager's tables repositories, authors and commits
    lastEvent       \* what the last step returned or logged

vars == <<now, intents, nextId, intentsChan, hs, bpc, ctxCancelled,
          intentsQueue, publishedLog, scoutStore, scoutCancelled, sweep, yieldsQueue, locks, workers,
          commitsChan, repoChan, cres, rres, monitorQueue, proc, fetched, tables,
          lastEvent>>

\* What only the Harvester's fetches and resolvers touch.
inner == <<commitsChan, repoChan, cres, rres, monitorQueue, proc, fetched>>

\* What the Manager's steps leave alone.
downstream == <<scoutStore, scoutCancelled, sweep, yieldsQueue, locks, workers, inner>>

\* What the Scout's and the Harvester's steps leave alone.
upstream == <<now, intents, nextId, intentsChan, hs, bpc, ctxCancelled, publishedLog, tables>>

\* lastEvent is a history variable: no step reads it.  It holds what the last step
\* handed back to its caller or logged, until the caller has taken it (Observe).
NoEvent == [kind |-> "none"]
Quiet == lastEvent = NoEvent

\* ------------------------------------------------------------ pure helpers

\* strings.Split(s, "/"): the parts between separators; "" gives one empty part.
RECURSIVE Split(_)
Split(s) ==
    IF s = <<>> THEN << <<>> >>
    ELSE LET rest == Split(Tail(s))
         IN  IF Head(s) = "/"
             THEN << <<>> >> \o rest
             ELSE << <<Head(s)>> \o Head(rest) >> \o Tail(rest)

\* A faulty validateRepositoryName that only counts the parts and lets an empty
\* owner or name through.
validateRepositoryNameLoose(name) ==
    IF Len(Split(name)) # 2 THEN ErrInvalidRepository ELSE ErrNone

\* validateRepositoryName
validateRepositoryName(name) ==
    LET parts == Split(name)
    IN  IF Len(parts) # 2 \/ parts[1] = <<>> \/ parts[2] = <<>>
        THEN ErrInvalidRepository
        ELSE ErrNone

\* A faulty validateStartDate that tests date.Before where the code has date.After.
validateStartDateBefore(date) ==
    IF date < now THEN ErrInvalidStartDate ELSE ErrNone

\* validateStartDate: date.After(time.Now())
validateStartDate(date) ==
    IF date > now THEN ErrInvalidStartDate ELSE ErrNone

\* events.IntentPayload: the Manager sets ID, RepoOwner, RepoName and From;
\* Until is a field it never sets.
IntentPayload(id, repoName, from) ==
    [id |-> id,
     owner |-> Split(repoName)[1],
     name |-> Split(repoName)[2],
     from |-> from,
     until |-> ZeroTime]

\* events.IntentCommand{Kind, Intent}
IntentCommand(kind, payload) == [kind |-> kind, intent |-> payload]

\* fmt.Errorf("<msg>: %w", err)
Wrap(msg, err) == <<msg, err>>

\* ---------------------------------------------------------------- pgStore
\* A pointer field of models.IntentUpdate is <<>> (nil) or <<v>>.
IntentUpdate(id, status, isActive, startDate) ==
    [id |-> id, status |-> status, isActive |-> isActive, startDate |-> startDate]

\* A faulty SaveIntent that hands back the row without inserting it.
SaveIntentNotStored(table, intent, ok) ==
    IF ~ok \/ intent.id \in DOMAIN table
    THEN [err |-> ErrStore, table |-> table, intent |-> <<>>]
    ELSE [err |-> ErrNone, table |-> table, intent |-> <<intent>>]

\* pgStore.SaveIntent + the SaveIntent query: INSERT ... RETURNING the row.
\* `ok` is whether the database answers.
SaveIntent(table, intent, ok) ==
    IF ~ok \/ intent.id \in DOMAIN table
    THEN [err |-> ErrStore, table |-> table, intent |-> <<>>]
    ELSE [err |-> ErrNone,
          table |-> [i \in DOMAIN table \cup {intent.id} |->
                        IF i = intent.id THEN intent ELSE table[i]],
          intent |-> <<intent>>]

\* pgStore.FindIntent + the FindIntent query (:one): no row is pgx.ErrNoRows.
FindIntent(table, id, ok) ==
    IF ~ok THEN [err |-> ErrStore, intent |-> <<>>]
    ELSE IF id \notin DOMAIN table THEN [err |-> ErrNoRows, intent |-> <<>>]
    ELSE [err |-> ErrNone, intent |-> <<table[id]>>]

\* The parameters pgStore.UpdateIntent hands to the query: a nil Status stays the
\* zero IntentStatus "", a nil IsActive stays false, a nil StartDate stays the
\* invalid (NULL) Timestamptz.
UpdateIntentParams(update) ==
    [id |-> update.id,
     status |-> IF update.status = <<>> THEN "" ELSE update.status[1],
     isActive |-> IF update.isActive = <<>> THEN FALSE ELSE update.isActive[1],
     startDate |-> update.startDate]

\* A faulty UpdateIntent whose query leaves the status column out of its SET list.
UpdateIntentKeepsStatus(table, update, ok) ==
    LET p == UpdateIntentParams(update)
    IN  IF ~ok THEN [err |-> ErrStore, table |-> table, intent |-> <<>>]
        ELSE IF p.status \notin IntentStatusEnum
        THEN [err |-> ErrInvalidEnum, table |-> table, intent |-> <<>>]
        ELSE IF p.id \notin DOMAIN table
        THEN [err |-> ErrNoRows, table |-> table, intent |-> <<>>]
        ELSE LET row == [table[p.id] EXCEPT
                             !.isActive = p.isActive,
                             !.startDate = IF p.startDate = <<>> THEN @ ELSE p.startDate[1]]
             IN  [err |-> ErrNone,
                  table |-> [table EXCEPT ![p.id] = row],
                  intent |-> <<row>>]

\* pgStore.UpdateIntent + the UpdateIntent query:
\*   SET status = COALESCE($2, status), is_active = COALESCE($3, is_active),
\*       start_date = COALESCE($4, start_date) WHERE id = $1 RETURNING ...
\* $2 is an intent_status: a value outside the enum is rejected by the database.
\* Only a NULL parameter keeps the stored column.
UpdateIntent(table, update, ok) ==
    LET p == UpdateIntentParams(update)
    IN  IF ~ok THEN [err |-> ErrStore, table |-> table, intent |-> <<>>]
        ELSE IF p.status \notin IntentStatusEnum
        THEN [err |-> ErrInvalidEnum, table |-> table, intent |-> <<>>]
        ELSE IF p.id \notin DOMAIN table
        THEN [err |-> ErrNoRows, table |-> table, intent |-> <<>>]
        ELSE LET row == [table[p.id] EXCEPT
                             !.status = p.status,
                             !.isActive = p.isActive,
                             !.startDate = IF p.startDate = <<>> THEN @ ELSE p.startDate[1]]
             IN  [err |-> ErrNone,
                  table |-> [table EXCEPT ![p.id] = row],
                  intent |-> <<row>>]

\* ------------------------------------------------------------------- Init
Idle == [pc |-> "idle"]
Select == [pc |-> "select"]
Waiting == [pc |-> "wait"]

Started ==
    /\ now = 1
    /\ intents = <<>>
    /\ nextId = 1
    /\ intentsChan = <<>>
    /\ hs = [h \in Handlers |-> Idle]
    /\ bpc = Select
    /\ ctxCancelled = FALSE
    /\ intentsQueue = <<>>
    /\ publishedLog = <<>>
    /\ scoutStore = <<>>
    /\ scoutCancelled = {}
    /\ sweep = Waiting
    /\ locks = <<>>
    /\ workers = [w \in Workers |-> Idle]
    /\ commitsChan = <<>>
    /\ repoChan = <<>>
    /\ cres = [pc |-> "select", batch |-> <<>>]
    /\ rres = Select
    /\ monitorQueue = <<>>
    /\ proc = [cancelled |-> FALSE, closed |-> FALSE, panicked |-> FALSE, exited |-> FALSE]
    /\ fetched = 0
    /\ tables = [repositories |-> {}, authors |-> {}, commits |-> <<>>]
    /\ lastEvent = NoEvent

\* The state after construction, nothing delivered yet.
Init == Started /\ yieldsQueue = <<>>

\* What a Service call hands back, with the channel and table as the returning
\* step found them, the table as the call found it, and whether the database and
\* the uuid source answered whenever the call asked them.
Return(op, args, pre, served, err, ret) ==
    [kind |-> "return", op |-> op, args |-> args, served |-> served, err |-> err, ret |-> ret,
     tableAtCall |-> pre, tableBefore |-> intents, chanBefore |-> intentsChan]

\* ---------------------------------------------------------------- Service

\* Faulty variant: the start date is validated after the save, so a call that
\* fails on its date has stored the intent.
CreateIntentSavingFirst(h, repoName, startDate, uuidOk, dbOk) ==
    LET args == [repoName |-> repoName, startDate |-> startDate, at |-> now]
        fail(served, err) ==
            /\ lastEvent' = Return("CreateIntent", args, intents, served, err, <<>>)
            /\ UNCHANGED <<intents, nextId, hs>>
        intent == [id |-> nextId, repoName |-> repoName, startDate |-> startDate,
                   status |-> PendingBroadCast, isActive |-> TRUE]
        saved == SaveIntent(intents, intent, dbOk)
    IN  /\ Quiet
        /\ hs[h].pc = "idle"
        /\ IF validateRepositoryName(repoName) # ErrNone
           THEN fail(TRUE, validateRepositoryName(repoName))
           ELSE /\ nextId \in Ids
                /\ IF ~uuidOk THEN fail(FALSE, ErrUUID)
                   ELSE IF saved.err # ErrNone THEN fail(dbOk, saved.err)
                   ELSE IF validateStartDate(startDate) # ErrNone
                   THEN /\ intents' = saved.table
                        /\ nextId' = nextId + 1
                        /\ lastEvent' = Return("CreateIntent", args, intents, TRUE,
                                                validateStartDate(startDate), <<>>)
                        /\ UNCHANGED hs
                   ELSE /\ intents' = saved.table
                        /\ nextId' = nextId + 1
                        /\ hs' = [hs EXCEPT ![h] =
                                    [pc |-> "send", op |-> "CreateIntent", args |-> args,
                                     pre |-> intents, ret |-> saved.intent,
                                     cmd |-> IntentCommand(NewIntentKind,
                                               IntentPayload(saved.intent[1].id, repoName,
                                                             saved.intent[1].startDate))]]
                        /\ lastEvent' = NoEvent
        /\ UNCHANGED <<now, intentsChan, bpc, ctxCancelled, intentsQueue, publishedLog>>
        /\ UNCHANGED <<tables, downstream>>

\* Service.CreateIntent up to the channel send.
CreateIntent(h, repoName, startDate, uuidOk, dbOk) ==
    LET args == [repoName |-> repoName, startDate |-> startDate, at |-> now]
        fail(served, err) ==
            /\ lastEvent' = Return("CreateIntent", args, intents, served, err, <<>>)
            /\ UNCHANGED <<intents, nextId, hs>>
        intent == [id |-> nextId, repoName |-> repoName, startDate |-> startDate,
                   status |-> PendingBroadCast, isActive |-> TRUE]
        saved == SaveIntent(intents, intent, dbOk)
    IN  /\ Quiet
        /\ hs[h].pc = "idle"
        /\ IF validateRepositoryName(repoName) # ErrNone
           THEN fail(TRUE, validateRepositoryName(repoName))
           ELSE IF validateStartDate(startDate) # ErrNone
           THEN fail(TRUE, validateStartDate(startDate))
           ELSE /\ nextId \in Ids
                /\ IF ~uuidOk THEN fail(FALSE, ErrUUID)
                   ELSE IF saved.err # ErrNone THEN fail(dbOk, saved.err)
                   ELSE /\ intents' = saved.table
                        /\ nextId' = nextId + 1
                        /\ hs' = [hs EXCEPT ![h] =
                                    [pc |-> "send", op |-> "CreateIntent", args |-> args,
                                     pre |-> intents, ret |-> saved.intent,
                                     cmd |-> IntentCommand(NewIntentKind,
                                               IntentPayload(saved.intent[1].id, repoName,
                                                             saved.intent[1].startDate))]]
                        /\ lastEvent' = NoEvent
        /\ UNCHANGED <<now, intentsChan, bpc, ctxCancelled, intentsQueue, publishedLog>>
        /\ UNCHANGED <<tables, downstream>>

\* Service.UpdateIntentStatus: store.FindIntent and the nil check.
UpdateIntentStatusFind(h, id, dbOk) ==
    LET args == [id |-> id]
        found == FindIntent(intents, id, dbOk)
        fail(err) ==
            /\ lastEvent' = Return("UpdateIntentStatus", args, intents, dbOk, err, <<>>)
            /\ UNCHANGED hs
    IN  /\ Quiet
        /\ hs[h].pc = "idle"
        /\ IF found.err # ErrNone THEN fail(Wrap("failed to find intent", found.err))
           ELSE IF found.intent = <<>> THEN fail(ErrIntentNotFound)
           ELSE /\ hs' = [hs EXCEPT ![h] =
                            [pc |-> "update", op |-> "UpdateIntentStatus", args |-> args,
                             pre |-> intents, intent |-> found.intent[1]]]
                /\ lastEvent' = NoEvent
        /\ UNCHANGED <<now, intents, nextId, intentsChan, bpc, ctxCancelled,
                       intentsQueue, publishedLog>>
        /\ UNCHANGED <<tables, downstream>>

\* Service.UpdateIntentStatus: store.UpdateIntent with only IsActive set, then
\* the choice of the command kind.
UpdateIntentStatusUpdate(h, dbOk) ==
    LET intent == hs[h].intent
        newStatus == ~intent.isActive
        updated == UpdateIntent(intents,
                                IntentUpdate(hs[h].args.id, <<>>, <<newStatus>>, <<>>), dbOk)
        update == updated.intent[1]
        eventKind == IF intent.isActive /\ ~newStatus THEN CancelIntentKind
                     ELSE IF ~intent.isActive /\ newStatus THEN NewIntentKind
                     ELSE UpdateIntentKind
    IN  /\ Quiet
        /\ hs[h].pc = "update"
        /\ IF updated.err # ErrNone
           THEN /\ lastEvent' = Return("UpdateIntentStatus", hs[h].args, hs[h].pre, dbOk,
                                       Wrap("failed to update intent", updated.err), <<>>)
                /\ hs' = [hs EXCEPT ![h] = Idle]
                /\ UNCHANGED intents
           ELSE /\ intents' = updated.table
                /\ hs' = [hs EXCEPT ![h] =
                            [pc |-> "send", op |-> "UpdateIntentStatus", args |-> hs[h].args,
                             pre |-> hs[h].pre, ret |-> updated.intent,
                             cmd |-> IntentCommand(eventKind,
                                       IntentPayload(update.id, update.repoName,
                                                     update.startDate))]]
                /\ lastEvent' = NoEvent
        /\ UNCHANGED <<now, nextId, intentsChan, bpc, ctxCancelled, intentsQueue,
                       publishedLog>>
        /\ UNCHANGED <<tables, downstream>>

\* Service.ResetIntentStartDate up to the channel send.
ResetIntentStartDate(h, id, newDate, dbOk) ==
    LET args == [id |-> id, newDate |-> newDate, at |-> now]
        updated == UpdateIntent(intents, IntentUpdate(id, <<>>, <<>>, <<newDate>>), dbOk)
        intent == updated.intent[1]
        fail(served, err) ==
            /\ lastEvent' = Return("ResetIntentStartDate", args, intents, served, err, <<>>)
            /\ UNCHANGED <<intents, hs>>
    IN  /\ Quiet
        /\ hs[h].pc = "idle"
        /\ IF validateStartDate(newDate) # ErrNone
           THEN fail(TRUE, validateStartDate(newDate))
           ELSE IF updated.err # ErrNone THEN fail(dbOk, updated.err)
           ELSE /\ intents' = updated.table
                /\ hs' = [hs EXCEPT ![h] =
                            [pc |-> "send", op |-> "ResetIntentStartDate", args |-> args,
                             pre |-> intents, ret |-> <<>>,
                             cmd |-> IntentCommand(UpdateIntentKind,
                                       IntentPayload(intent.id, intent.repoName,
                                                     intent.startDate))]]
                /\ lastEvent' = NoEvent
        /\ UNCHANGED <<now, nextId, intentsChan, bpc, ctxCancelled, intentsQueue,
                       publishedLog>>
        /\ UNCHANGED <<tables, downstream>>

\* `svc.intentsChan <- cmd` and the return after it: blocks while the buffer is full.
ChanSend(h) ==
    /\ Quiet
    /\ hs[h].pc = "send"
    /\ Len(intentsChan) < IntentsChanCap
    /\ intentsChan' = Append(intentsChan, hs[h].cmd)
    /\ lastEvent' = Return(hs[h].op, hs[h].args, hs[h].pre, TRUE, ErrNone, hs[h].ret)
    /\ hs' = [hs EXCEPT ![h] = Idle]
    /\ UNCHANGED <<now, intents, nextId, bpc, ctxCancelled, intentsQueue, publishedLog>>
    /\ UNCHANGED <<tables, downstream>>

\* IntentHandler.CreateIntent from the Service's return on: the status code of
\* the response to POST /intents.
CreateIntentResponse(err) ==
    IF err = ErrNone THEN "201 Created"
    ELSE IF err \in {ErrInvalidRepository, ErrExistingIntent} THEN "400 Bad Request"
    ELSE "500 Internal Server Error"

\* ---------------------------------------------------------- StartBroadCast
\* What one pass of the loop logged, with the table as the pass found it and
\* whether the database answered the pass.
Broadcast(cmd, outcome, served) ==
    [kind |-> "broadcast", cmd |-> cmd, outcome |-> outcome, served |-> served,
     tableBefore |-> intents]

\* json.Marshal failed: logged, `continue`.
MarshalFailed(v) ==
    /\ lastEvent' = Broadcast(v, "marshal_failed", TRUE)
    /\ UNCHANGED <<bpc, intentsQueue, publishedLog>>

\* A faulty publish-error branch that returns the error where the code continues.
PublishFailedReturns(v) ==
    /\ lastEvent' = Broadcast(v, "publish_failed", TRUE)
    /\ bpc' = [pc |-> "stopped", err |-> <<"publish error">>]
    /\ UNCHANGED <<intentsQueue, publishedLog>>

\* Faulty variant: a failed publish goes on to the status update.
PublishFailedUpdating(v) ==
    /\ lastEvent' = Broadcast(v, "publish_failed", TRUE)
    /\ bpc' = [pc |-> "update", cmd |-> v]
    /\ UNCHANGED <<intentsQueue, publishedLog>>

\* ch.PublishWithContext failed: logged, `continue`.
PublishFailed(v) ==
    /\ lastEvent' = Broadcast(v, "publish_failed", TRUE)
    /\ UNCHANGED <<bpc, intentsQueue, publishedLog>>

\* ch.PublishWithContext succeeded: the command is on cfg.IntentsQueueName.
Published(v) ==
    /\ intentsQueue' = Append(intentsQueue, v)
    /\ publishedLog' = Append(publishedLog, v)
    /\ bpc' = [pc |-> "update", cmd |-> v]
    /\ lastEvent' = Broadcast(v, "published", TRUE)

\* One pass of the select's receive branch up to the publish: receive, marshal,
\* ch.PublishWithContext.
BroadcastPublish(marshalOk, publishOk) ==
    LET v == Head(intentsChan)
    IN  /\ Quiet
        /\ bpc.pc = "select"
        /\ intentsChan # <<>>
        /\ intentsChan' = Tail(intentsChan)
        /\ IF ~marshalOk THEN MarshalFailed(v)
           ELSE IF ~publishOk THEN PublishFailed(v)
           ELSE Published(v)
        /\ UNCHANGED <<now, intents, nextId, hs, ctxCancelled>>
        /\ UNCHANGED <<tables, downstream>>

\* The status flip after a successful publish: store.UpdateIntent with only
\* Status set; its error is returned, which ends the loop.
BroadcastUpdate(dbOk) ==
    LET v == bpc.cmd
        updated == UpdateIntent(intents,
                                IntentUpdate(v.intent.id, <<SuccessBroadCast>>, <<>>, <<>>),
                                dbOk /\ ~ctxCancelled)
    IN  /\ Quiet
        /\ bpc.pc = "update"
        /\ IF updated.err # ErrNone
           THEN /\ bpc' = [pc |-> "stopped", err |-> updated.err]
                /\ lastEvent' = Broadcast(v, "update_failed", dbOk /\ ~ctxCancelled)
                /\ UNCHANGED intents
           ELSE /\ intents' = updated.table
                /\ bpc' = Select
                /\ lastEvent' = Broadcast(v, "updated", TRUE)
        /\ UNCHANGED <<now, nextId, intentsChan, hs, ctxCancelled, intentsQueue,
                       publishedLog>>
        /\ UNCHANGED <<tables, downstream>>

\* The select's ctx.Done() branch.
BroadcastCtxDone ==
    /\ Quiet
    /\ bpc.pc = "select"
    /\ ctxCancelled
    /\ bpc' = [pc |-> "stopped", err |-> <<"context canceled">>]
    /\ lastEvent' = NoEvent
    /\ UNCHANGED <<now, intents, nextId, intentsChan, hs, ctxCancelled, intentsQueue,
                   publishedLog>>
    /\ UNCHANGED <<tables, downstream>>

\* ------------------------------------------------------------ environment
CancelCtx ==
    /\ Quiet
    /\ ~ctxCancelled
    /\ ctxCancelled' = TRUE
    /\ lastEvent' = NoEvent
    /\ UNCHANGED <<now, intents, nextId, intentsChan, hs, bpc, intentsQueue, publishedLog>>
    /\ UNCHANGED <<tables, downstream>>

Tick ==
    /\ Quiet
    /\ now < MaxNow
    /\ now' = now + 1
    /\ lastEvent' = NoEvent
    /\ UNCHANGED <<intents, nextId, intentsChan, hs, bpc, ctxCancelled, intentsQueue,
                   publishedLog>>
    /\ UNCHANGED <<tables, downstream>>

\* The caller takes the returned value (handlers/intents.go: `intent, err :=
\* h.service.CreateIntent(...)`), or the log line is written.
Observe ==
    /\ ~Quiet
    /\ lastEvent' = NoEvent
    /\ UNCHANGED <<now, intents, nextId, intentsChan, hs, bpc, ctxCancelled,
                   intentsQueue, publishedLog>>
    /\ UNCHANGED <<tables, downstream>>

\* -------------------------------------------------------------- the Scout
\* The redis key of processIntent, "intent:<owner>:<name>", and the Harvester's
\* lock key, "lock:<owner>.<name>": both name the repository.
RepoKey(intent) == <<intent.owner, intent.name>>

\* storeNewIntent: SET key (no expiry).
storeNewIntent(store, key, intent) ==
    [k \in DOMAIN store \cup {key} |-> IF k = key THEN intent ELSE store[k]]

\* updateIntent: a missing key is stored as new; a present one keeps its value but
\* for From and Until.
updateIntent(store, key, updatedIntent) ==
    IF key \notin DOMAIN store
    THEN storeNewIntent(store, key, updatedIntent)
    ELSE storeNewIntent(store, key,
                        [store[key] EXCEPT !.from = updatedIntent.from,
                                           !.until = updatedIntent.until])

\* cancelIntent: DEL key.
cancelIntent(store, key) == [k \in DOMAIN store \ {key} |-> store[k]]

\* processIntent
processIntent(store, event) ==
    LET key == RepoKey(event.intent)
    IN  IF event.kind = NewIntentKind THEN storeNewIntent(store, key, event.intent)
        ELSE IF event.kind = UpdateIntentKind THEN updateIntent(store, key, event.intent)
        ELSE cancelIntent(store, key)

\* getAllIntents: KEYS intent:* and a GET of each.
getAllIntents(store) == {store[k] : k \in DOMAIN store}

\* The consumer goroutine: one delivery of the intents queue (auto-ack) through
\* processMessage.  A redis error is logged and the delivery is gone.
ScoutProcessMessage(redisOk) ==
    LET event == Head(intentsQueue)
    IN  /\ Quiet
        /\ intentsQueue # <<>>
        /\ intentsQueue' = Tail(intentsQueue)
        /\ scoutStore' = IF redisOk THEN processIntent(scoutStore, event) ELSE scoutStore
        /\ scoutCancelled' =
                IF redisOk /\ event.kind = CancelIntentKind
                THEN scoutCancelled \cup {RepoKey(event.intent)}
                ELSE IF redisOk /\ event.kind = NewIntentKind
                THEN scoutCancelled \ {RepoKey(event.intent)}
                ELSE scoutCancelled
        /\ lastEvent' = [kind |-> "scout", event |-> event, ok |-> redisOk]
        /\ UNCHANGED <<sweep, yieldsQueue, locks, workers>>
        /\ UNCHANGED <<upstream, inner>>

\* The ticker goroutine: a tick, and broadcastIntents up to its loop.  A redis error
\* is logged and the sweep is over.
ScoutSweepStart(redisOk) ==
    LET found == getAllIntents(scoutStore)
    IN  /\ Quiet
        /\ sweep.pc = "wait"
        /\ sweep' = IF redisOk /\ found # {}
                    THEN [pc |-> "publish", todo |-> found]
                    ELSE Waiting
        /\ lastEvent' = [kind |-> "sweep", ok |-> redisOk,
                         found |-> IF redisOk THEN found ELSE {},
                         storeBefore |-> scoutStore]
        /\ UNCHANGED <<intentsQueue, scoutStore, scoutCancelled, yieldsQueue, locks, workers>>
        /\ UNCHANGED <<upstream, inner>>

\* Faulty variant: an intent is taken out of the store once it is published.
ScoutSweepPublishOnce(intent, publishOk) ==
    LET rest == sweep.todo \ {intent}
    IN  /\ Quiet
        /\ sweep.pc = "publish"
        /\ intent \in sweep.todo
        /\ Len(yieldsQueue) < MaxQueue
        /\ yieldsQueue' = IF publishOk
                          THEN Append(yieldsQueue, IntentCommand(NewIntentKind, intent))
                          ELSE yieldsQueue
        /\ scoutStore' = [k \in DOMAIN scoutStore \ {RepoKey(intent)} |-> scoutStore[k]]
        /\ UNCHANGED scoutCancelled
        /\ sweep' = IF rest = {} THEN Waiting ELSE [pc |-> "publish", todo |-> rest]
        /\ lastEvent' = [kind |-> "sweep_publish", intent |-> intent, ok |-> publishOk,
                         todoBefore |-> sweep.todo, queueBefore |-> yieldsQueue,
                         storeBefore |-> scoutStore]
        /\ UNCHANGED <<intentsQueue, locks, workers>>
        /\ UNCHANGED <<upstream, inner>>

\* One turn of broadcastIntents' loop: publishEvent of a new_intent command for the
\* intent; a failure is logged and the loop goes on.
ScoutSweepPublish(intent, publishOk) ==
    LET rest == sweep.todo \ {intent}
    IN  /\ Quiet
        /\ sweep.pc = "publish"
        /\ intent \in sweep.todo
        /\ Len(yieldsQueue) < MaxQueue
        /\ yieldsQueue' = IF publishOk
                          THEN Append(yieldsQueue, IntentCommand(NewIntentKind, intent))
                          ELSE yieldsQueue
        /\ sweep' = IF rest = {} THEN Waiting ELSE [pc |-> "publish", todo |-> rest]
        /\ lastEvent' = [kind |-> "sweep_publish", intent |-> intent, ok |-> publishOk,
                         todoBefore |-> sweep.todo, queueBefore |-> yieldsQueue,
                         storeBefore |-> scoutStore]
        /\ UNCHANGED <<intentsQueue, scoutStore, scoutCancelled, locks, workers>>
        /\ UNCHANGED <<upstream, inner>>

\* The broker takes a command published to the intents queue.
IntentsPublished(cmd) ==
    /\ Quiet
    /\ Len(intentsQueue) < MaxQueue
    /\ intentsQueue' = Append(intentsQueue, cmd)
    /\ lastEvent' = NoEvent
    /\ UNCHANGED <<scoutStore, scoutCancelled, sweep, yieldsQueue, locks, workers>>
    /\ UNCHANGED <<upstream, inner>>

\* The broker hands the next command of discovery.yields to its consumer
\* (auto-ack).
YieldsDelivered ==
    /\ Quiet
    /\ yieldsQueue # <<>>
    /\ yieldsQueue' = Tail(yieldsQueue)
    /\ lastEvent' = NoEvent
    /\ UNCHANGED <<intentsQueue, scoutStore, scoutCancelled, sweep, locks, workers>>
    /\ UNCHANGED <<upstream, inner>>

\* ---------------------------------------------------------- the Harvester
\* The lock keys are a function from the key to the time it has left to live.

\* acquireLock: SETNX key with a TTL.  A key that is there is left as it is.
\* Faulty variant: a refused attempt still renews the key's time to live.
acquireLockRenewing(held, key, ttl, redisOk) ==
    IF ~redisOk THEN [ok |-> FALSE, err |-> <<"failed to acquire lock">>, locks |-> held]
    ELSE [ok |-> key \notin DOMAIN held, err |-> ErrNone,
          locks |-> [k \in DOMAIN held \cup {key} |-> IF k = key THEN ttl ELSE held[k]]]

\* Faulty variant: SET without NX, which takes the key over from its holder.
acquireLockTakingOver(held, key, ttl, redisOk) ==
    IF ~redisOk THEN [ok |-> FALSE, err |-> <<"failed to acquire lock">>, locks |-> held]
    ELSE [ok |-> TRUE, err |-> ErrNone,
          locks |-> [k \in DOMAIN held \cup {key} |-> IF k = key THEN ttl ELSE held[k]]]

acquireLock(held, key, ttl, redisOk) ==
    IF ~redisOk THEN [ok |-> FALSE, err |-> <<"failed to acquire lock">>, locks |-> held]
    ELSE IF key \in DOMAIN held THEN [ok |-> FALSE, err |-> ErrNone, locks |-> held]
    ELSE [ok |-> TRUE, err |-> ErrNone,
          locks |-> [k \in DOMAIN held \cup {key} |-> IF k = key THEN ttl ELSE held[k]]]

\* releaseLock: DEL key, whoever set it; an error is logged.
releaseLock(held, key, redisOk) ==
    IF redisOk THEN [k \in DOMAIN held \ {key} |-> held[k]] ELSE held

\* The two fetch goroutines of a worker as handleMessage starts them.
FetchStart == [pc |-> "call"]
FetchDone(err) == [pc |-> "done", err |-> err]

\* The process runs: no goroutine has panicked and main has not returned.
Running == ~proc.panicked /\ ~proc.exited

\* A message body that is not JSON.
Unparsable == [garbage |-> "not json"]

\* parseEvent: json.Unmarshal of the body into an IntentCommand.
parseEvent(body) ==
    IF "kind" \in DOMAIN body THEN [err |-> ErrNone, event |-> <<body>>]
    ELSE [err |-> Wrap("failed to unmarshal event", <<"json: invalid character">>),
          event |-> <<>>]

\* What handleMessage's first part logs, with the locks, the queue and the rest of
\* the Harvester as it found them.
HarvestLog(w, body, key, served, outcome) ==
    [kind |-> "harvest", worker |-> w, event |-> body, key |-> key,
     served |-> served, outcome |-> outcome, locksBefore |-> locks,
     queueBefore |-> yieldsQueue,
     holders |-> {v \in Workers : workers[v].pc = "harvest" /\ workers[v].key = key},
     innerBefore |-> inner]

\* Faulty variant: the release is deferred before the lock attempt, so a worker
\* that did not get the lock deletes the key on its way out.
HarvesterHandleReleasing(w, redisOk) ==
    LET body == Head(yieldsQueue)
        parsed == parseEvent(body)
        event == parsed.event[1]
        key == RepoKey(event.intent)
        got == acquireLock(locks, key, LockTTL, redisOk)
    IN  /\ Quiet
        /\ Running
        /\ workers[w].pc = "idle"
        /\ yieldsQueue # <<>>
        /\ yieldsQueue' = Tail(yieldsQueue)
        /\ IF parsed.err # ErrNone
           THEN /\ lastEvent' = HarvestLog(w, body, <<>>, TRUE, "unparsable")
                /\ UNCHANGED <<locks, workers>>
           ELSE IF got.err # ErrNone \/ ~got.ok
           THEN /\ locks' = releaseLock(got.locks, key, redisOk)
                /\ lastEvent' = HarvestLog(w, body, key, redisOk, "dropped")
                /\ UNCHANGED workers
           ELSE /\ locks' = got.locks
                /\ lastEvent' = HarvestLog(w, body, key, redisOk, "locked")
                /\ workers' = [workers EXCEPT ![w] =
                                 [pc |-> "harvest", key |-> key, event |-> event,
                                  info |-> FetchStart, commits |-> FetchStart]]
        /\ UNCHANGED <<intentsQueue, scoutStore, scoutCancelled, sweep>>
        /\ UNCHANGED <<upstream, inner>>

\* handleMessage up to the lock: one delivery of discovery.yields (auto-ack); a
\* body that does not parse is dropped, and so is a command without the lock.
\* The command's kind is not looked at.
HarvesterHandle(w, redisOk) ==
    LET body == Head(yieldsQueue)
        parsed == parseEvent(body)
        event == parsed.event[1]
        key == RepoKey(event.intent)
        got == acquireLock(locks, key, LockTTL, redisOk)
    IN  /\ Quiet
        /\ Running
        /\ workers[w].pc = "idle"
        /\ yieldsQueue # <<>>
        /\ yieldsQueue' = Tail(yieldsQueue)
        /\ IF parsed.err # ErrNone
           THEN /\ lastEvent' = HarvestLog(w, body, <<>>, TRUE, "unparsable")
                /\ UNCHANGED <<locks, workers>>
           ELSE IF got.err # ErrNone \/ ~got.ok
           THEN /\ locks' = got.locks
                /\ lastEvent' = HarvestLog(w, body, key, redisOk, "dropped")
                /\ UNCHANGED workers
           ELSE /\ locks' = got.locks
                /\ lastEvent' = HarvestLog(w, body, key, redisOk, "locked")
                /\ workers' = [workers EXCEPT ![w] =
                                 [pc |-> "harvest", key |-> key, event |-> event,
                                  info |-> FetchStart, commits |-> FetchStart]]
        /\ UNCHANGED <<intentsQueue, scoutStore, scoutCancelled, sweep>>
        /\ UNCHANGED <<upstream, inner>>

\* fmt.Sprintf("%s/%s", ev.RepoOwner, ev.RepoName)
FullName(key) == key[1] \o <<"/">> \o key[2]

\* The author the code-hosting API reports for a commit: commits alternate
\* between two authors.
GitAuthor(sha) == ((sha - 1) % 2) + 1

\* A CommitResult as fetchCommits builds it: the repository and the commit, here
\* its sha.  `by`, the worker that fetched it, is kept for the properties only.
CommitResult(key, sha, w) ==
    [repository |-> FullName(key), by |-> w,
     commit |-> [sha |-> sha, message |-> sha,
                 author |-> [name |-> GitAuthor(sha), email |-> GitAuthor(sha), date |-> 1]]]

\* A *github.Repository as fetchGithubInfo gets it.
Repository(key, w) == [fullName |-> key, by |-> w]

ErrCtx == <<"context canceled">>
ErrApi == <<"code-hosting API error">>

\* What a failed fetch logs, with the worker and the rest of the Harvester as the
\* failing step found them.
FetchFailed(w, which, err) ==
    [kind |-> "fetch_failed", worker |-> w, which |-> which, err |-> err,
     workerBefore |-> workers[w], innerBefore |-> inner]

\* A send on a closed channel panics, and a panic ends the process.
Panic == [proc EXCEPT !.panicked = TRUE]

\* fetchGithubInfo: client.Repositories.Get.  The call carries the context.
FetchInfoGet(w, apiOk) ==
    LET ok == apiOk /\ ~proc.cancelled
    IN  /\ Quiet
        /\ Running
        /\ workers[w].pc = "harvest"
        /\ workers[w].info.pc = "call"
        /\ IF ok
           THEN /\ workers' = [workers EXCEPT ![w].info =
                                 [pc |-> "send", repo |-> Repository(workers[w].key, w)]]
                /\ lastEvent' = NoEvent
           ELSE /\ workers' = [workers EXCEPT ![w].info =
                                 FetchDone(Wrap("failed to fetch repo info", ErrApi))]
                /\ lastEvent' = FetchFailed(w, "info", ErrApi)
        /\ UNCHANGED <<intentsQueue, scoutStore, scoutCancelled, sweep, yieldsQueue, locks>>
        /\ UNCHANGED <<upstream, inner>>

\* fetchGithubInfo: select { case repoChan <- repo: case <-ctx.Done(): }.
FetchInfoSend(w, viaCtx) ==
    /\ Quiet
    /\ Running
    /\ workers[w].pc = "harvest"
    /\ workers[w].info.pc = "send"
    /\ IF viaCtx
       THEN /\ proc.cancelled
            /\ workers' = [workers EXCEPT ![w].info = FetchDone(ErrCtx)]
            /\ lastEvent' = FetchFailed(w, "info", ErrCtx)
            /\ UNCHANGED <<repoChan, proc>>
       ELSE IF proc.closed
       THEN /\ proc' = Panic
            /\ lastEvent' = NoEvent
            /\ UNCHANGED <<repoChan, workers>>
       ELSE /\ Len(repoChan) < RepoChanCap
            /\ repoChan' = Append(repoChan, workers[w].info.repo)
            /\ workers' = [workers EXCEPT ![w].info = FetchDone(ErrNone)]
            /\ lastEvent' = NoEvent
            /\ UNCHANGED proc
    /\ UNCHANGED <<intentsQueue, scoutStore, scoutCancelled, sweep, yieldsQueue, locks>>
    /\ UNCHANGED <<commitsChan, cres, rres, monitorQueue, fetched>>
    /\ UNCHANGED upstream

\* Faulty variant: a failed listing ends the worker's other fetch as well.
FetchCommitsListFatal(w, n, last, apiOk) ==
    LET ok == apiOk /\ ~proc.cancelled
        page == [i \in 1..n |-> CommitResult(workers[w].key, fetched + i, w)]
        failed == FetchDone(Wrap("error fetching commits", ErrApi))
    IN  /\ Quiet
        /\ Running
        /\ workers[w].pc = "harvest"
        /\ workers[w].commits.pc = "call"
        /\ IF ~ok
           THEN /\ workers' = [workers EXCEPT ![w].commits = failed, ![w].info = failed]
                /\ lastEvent' = FetchFailed(w, "commits", ErrApi)
                /\ UNCHANGED fetched
           ELSE /\ fetched + n <= MaxCommits
                /\ n = 0 => last
                /\ fetched' = fetched + n
                /\ workers' = [workers EXCEPT ![w].commits =
                                 IF n = 0 THEN FetchDone(ErrNone)
                                 ELSE [pc |-> "send", todo |-> page, last |-> last]]
                /\ lastEvent' = NoEvent
        /\ UNCHANGED <<intentsQueue, scoutStore, scoutCancelled, sweep, yieldsQueue, locks>>
        /\ UNCHANGED <<commitsChan, repoChan, cres, rres, monitorQueue, proc>>
        /\ UNCHANGED upstream

\* fetchCommits: client.Repositories.ListCommits for one page of n commits; `last`
\* is resp.NextPage == 0.
FetchCommitsList(w, n, last, apiOk) ==
    LET ok == apiOk /\ ~proc.cancelled
        page == [i \in 1..n |-> CommitResult(workers[w].key, fetched + i, w)]
    IN  /\ Quiet
        /\ Running
        /\ workers[w].pc = "harvest"
        /\ workers[w].commits.pc = "call"
        /\ IF ~ok
           THEN /\ workers' = [workers EXCEPT ![w].commits =
                                 FetchDone(Wrap("error fetching commits", ErrApi))]
                /\ lastEvent' = FetchFailed(w, "commits", ErrApi)
                /\ UNCHANGED fetched
           ELSE /\ fetched + n <= MaxCommits
                /\ n = 0 => last
                /\ fetched' = fetched + n
                /\ workers' = [workers EXCEPT ![w].commits =
                                 IF n = 0 THEN FetchDone(ErrNone)
                                 ELSE [pc |-> "send", todo |-> page, last |-> last]]
                /\ lastEvent' = NoEvent
        /\ UNCHANGED <<intentsQueue, scoutStore, scoutCancelled, sweep, yieldsQueue, locks>>
        /\ UNCHANGED <<commitsChan, repoChan, cres, rres, monitorQueue, proc>>
        /\ UNCHANGED upstream

\* fetchCommits: select { case commitsChan <- &CommitResult{...}: case <-ctx.Done(): }
\* for the next commit of the page, and what follows the page's last commit.
FetchCommitsSend(w, viaCtx) ==
    LET c == workers[w].commits
        rest == Tail(c.todo)
    IN  /\ Quiet
        /\ Running
        /\ workers[w].pc = "harvest"
        /\ c.pc = "send"
        /\ IF viaCtx
           THEN /\ proc.cancelled
                /\ workers' = [workers EXCEPT ![w].commits = FetchDone(ErrCtx)]
                /\ lastEvent' = FetchFailed(w, "commits", ErrCtx)
                /\ UNCHANGED <<commitsChan, proc>>
           ELSE IF proc.closed
           THEN /\ proc' = Panic
                /\ lastEvent' = NoEvent
                /\ UNCHANGED <<commitsChan, workers>>
           ELSE /\ Len(commitsChan) < BatchSize
                /\ commitsChan' = Append(commitsChan, Head(c.todo))
                /\ workers' = [workers EXCEPT ![w].commits =
                                 IF rest # <<>> THEN [c EXCEPT !.todo = rest]
                                 ELSE IF c.last THEN FetchDone(ErrNone)
                                 ELSE FetchStart]
                /\ lastEvent' = NoEvent
                /\ UNCHANGED proc
        /\ UNCHANGED <<intentsQueue, scoutStore, scoutCancelled, sweep, yieldsQueue, locks>>
        /\ UNCHANGED <<repoChan, cres, rres, monitorQueue, fetched>>
        /\ UNCHANGED upstream

\* handleMessage from wg.Wait() on: the two fetches are over, the deferred
\* releaseLock runs.
HarvesterDone(w, redisOk) ==
    /\ Quiet
    /\ Running
    /\ workers[w].pc = "harvest"
    /\ workers[w].info.pc = "done"
    /\ workers[w].commits.pc = "done"
    /\ locks' = releaseLock(locks, workers[w].key, redisOk)
    /\ workers' = [workers EXCEPT ![w] = Idle]
    /\ lastEvent' = [kind |-> "release", worker |-> w, key |-> workers[w].key,
                     info |-> workers[w].info, commits |-> workers[w].commits]
    /\ UNCHANGED <<intentsQueue, scoutStore, scoutCancelled, sweep, yieldsQueue>>
    /\ UNCHANGED <<upstream, inner>>

\* ------------------------------------------------- the Harvester's resolvers
NewCommitsKind == "new_commits"
NewRepoInfoKind == "new_repo_info"

\* A models.Repository of a new_repo_info command.
ModelRepository(id, fullName, counts, language, createdAt, updatedAt) ==
    [id |-> id, fullName |-> fullName, watchers |-> counts, stargazers |-> counts,
     forks |-> counts, language |-> language, createdAt |-> createdAt,
     updatedAt |-> updatedAt]

\* A models.Author and a models.Commit of a new_commits command.
ModelAuthor(id, name) == [id |-> id, name |-> name, email |-> name, username |-> name]
ModelCommit(hash, author, message, createdAt, fullName) ==
    [hash |-> hash, author |-> author, message |-> message, createdAt |-> createdAt,
     repository |-> [fullName |-> fullName]]

\* events.CommitsCommand{Kind: NewCommitsKind, Payload: {Commits}}
CommitsCommand(commits) == [kind |-> NewCommitsKind, commits |-> commits]

\* The models.Commit publishCommitsBatch builds from a CommitResult: Hash,
\* Message, Author.Name, Author.Email, CreatedAt and Repository.FullName;
\* Author.ID and Author.Username are fields it never sets.
HarvestedCommit(result) ==
    [hash |-> result.commit.sha,
     author |-> [id |-> ZeroValue, name |-> result.commit.author.name,
                 email |-> result.commit.author.email, username |-> ZeroValue],
     message |-> result.commit.message,
     createdAt |-> result.commit.author.date,
     repository |-> [fullName |-> result.repository]]

\* Faulty variant: the batch's first commit is left out of the command.
publishCommitsBatchShort(batch) ==
    CommitsCommand([i \in 1..(Len(batch) - 1) |-> HarvestedCommit(batch[i + 1])])

\* publishCommitsBatch: the new_commits command for a batch.
publishCommitsBatch(batch) ==
    CommitsCommand([i \in DOMAIN batch |-> HarvestedCommit(batch[i])])

\* repoResolver's new_repo_info command for a repository.
RepoInfoCommand(repo) == [kind |-> NewRepoInfoKind, repo |-> repo]

\* A call of publishWithRetry: the command, the loop index i, and what made the
\* resolver publish.
Publishing(payload, trigger) == [payload |-> payload, i |-> 0, trigger |-> trigger]

\* Faulty variant: the loop runs while i <= maxRetries.
publishWithRetryOnceMore(pub, queue, cancelled, publishOk) ==
    IF cancelled THEN [outcome |-> "cancelled", queue |-> queue, i |-> pub.i]
    ELSE IF publishOk
    THEN [outcome |-> "published", queue |-> Append(queue, pub.payload), i |-> pub.i]
    ELSE IF pub.i + 1 <= MaxRetries
    THEN [outcome |-> "retry", queue |-> queue, i |-> pub.i + 1]
    ELSE [outcome |-> "gave_up", queue |-> queue, i |-> pub.i + 1]

\* One turn of publishWithRetry's loop, json.Marshal being done: nothing is sent
\* once the context is cancelled; a successful PublishWithContext returns nil; a
\* failed one sleeps retryDelay and goes round again while i < maxRetries.
publishWithRetry(pub, queue, cancelled, publishOk) ==
    IF cancelled THEN [outcome |-> "cancelled", queue |-> queue, i |-> pub.i]
    ELSE IF publishOk
    THEN [outcome |-> "published", queue |-> Append(queue, pub.payload), i |-> pub.i]
    ELSE IF pub.i + 1 < MaxRetries
    THEN [outcome |-> "retry", queue |-> queue, i |-> pub.i + 1]
    ELSE [outcome |-> "gave_up", queue |-> queue, i |-> pub.i + 1]

\* What a turn of publishWithRetry's loop logged, with the call and the queue as
\* the turn found them.
PublishTurn(resolver, pub, outcome) ==
    [kind |-> "publish", resolver |-> resolver, pub |-> pub, outcome |-> outcome,
     queueBefore |-> monitorQueue]

\* commitsResolver: an item received; at batchSize the batch is published.
CommitsResolverRecv ==
    LET item == Head(commitsChan)
        batch == Append(cres.batch, item)
    IN  /\ Quiet
        /\ Running
        /\ cres.pc = "select"
        /\ commitsChan # <<>>
        /\ commitsChan' = Tail(commitsChan)
        /\ cres' = IF Len(batch) = BatchSize
                   THEN [pc |-> "publish", batch |-> batch, after |-> "reset",
                         pub |-> Publishing(publishCommitsBatch(batch), "size")]
                   ELSE [pc |-> "select", batch |-> batch]
        /\ lastEvent' = [kind |-> "recv", item |-> item, batchBefore |-> cres.batch]
        /\ UNCHANGED <<intentsQueue, scoutStore, scoutCancelled, sweep, yieldsQueue, locks, workers>>
        /\ UNCHANGED <<repoChan, rres, monitorQueue, proc, fetched>>
        /\ UNCHANGED upstream

\* The flush of a batch in hand on one of the select's other branches; without a
\* batch the branches that return stop the resolver.
Flush(trigger, after) ==
    /\ cres' = IF cres.batch # <<>>
               THEN [pc |-> "publish", batch |-> cres.batch, after |-> after,
                     pub |-> Publishing(publishCommitsBatch(cres.batch), trigger)]
               ELSE [pc |-> "stopped", batch |-> <<>>]
    /\ lastEvent' = [kind |-> "flush", trigger |-> trigger, batchBefore |-> cres.batch,
                     chanBefore |-> commitsChan]
    /\ UNCHANGED <<intentsQueue, scoutStore, scoutCancelled, sweep, yieldsQueue, locks, workers>>
    /\ UNCHANGED <<commitsChan, repoChan, rres, monitorQueue, proc, fetched>>
    /\ UNCHANGED upstream

\* Faulty variant: the idle branch returns after its flush.
CommitsResolverIdleReturning ==
    /\ Quiet
    /\ Running
    /\ cres.pc = "select"
    /\ commitsChan = <<>>
    /\ ~proc.closed
    /\ ~proc.cancelled
    /\ cres.batch # <<>>
    /\ Flush("idle", "return")

\* commitsResolver: `case <-time.After(5 * time.Second)`, no item having come and
\* no other branch being ready for the whole window, with a batch in hand.
CommitsResolverIdle ==
    /\ Quiet
    /\ Running
    /\ cres.pc = "select"
    /\ commitsChan = <<>>
    /\ ~proc.closed
    /\ ~proc.cancelled
    /\ cres.batch # <<>>
    /\ Flush("idle", "reset")

\* commitsResolver: the receive from the closed and drained channel.
CommitsResolverClosed ==
    /\ Quiet
    /\ Running
    /\ cres.pc = "select"
    /\ commitsChan = <<>>
    /\ proc.closed
    /\ Flush("closed", "return")

\* commitsResolver: `case <-ctx.Done()`.
CommitsResolverCtxDone ==
    /\ Quiet
    /\ Running
    /\ cres.pc = "select"
    /\ proc.cancelled
    /\ Flush("cancel", "return")

\* Faulty variant: the batch is not emptied after its publish.
CommitsResolverPublishKeeping(publishOk) ==
    LET turn == publishWithRetry(cres.pub, monitorQueue, proc.cancelled, publishOk)
    IN  /\ Quiet
        /\ Running
        /\ cres.pc = "publish"
        /\ monitorQueue' = turn.queue
        /\ cres' = IF turn.outcome = "retry" THEN [cres EXCEPT !.pub.i = turn.i]
                   ELSE IF cres.after = "reset" THEN [pc |-> "select", batch |-> cres.batch]
                   ELSE [pc |-> "stopped", batch |-> cres.batch]
        /\ lastEvent' = PublishTurn("commits", cres.pub, turn.outcome)
        /\ UNCHANGED <<intentsQueue, scoutStore, scoutCancelled, sweep, yieldsQueue, locks, workers>>
        /\ UNCHANGED <<commitsChan, repoChan, rres, proc, fetched>>
        /\ UNCHANGED upstream

\* commitsResolver inside publishCommitsBatch: one turn of publishWithRetry's loop.
\* Its error is logged; the batch is emptied or the resolver returns.
CommitsResolverPublish(publishOk) ==
    LET turn == publishWithRetry(cres.pub, monitorQueue, proc.cancelled, publishOk)
    IN  /\ Quiet
        /\ Running
        /\ cres.pc = "publish"
        /\ monitorQueue' = turn.queue
        /\ cres' = IF turn.outcome = "retry" THEN [cres EXCEPT !.pub.i = turn.i]
                   ELSE IF cres.after = "reset" THEN [pc |-> "select", batch |-> <<>>]
                   ELSE [pc |-> "stopped", batch |-> cres.batch]
        /\ lastEvent' = PublishTurn("commits", cres.pub, turn.outcome)
        /\ UNCHANGED <<intentsQueue, scoutStore, scoutCancelled, sweep, yieldsQueue, locks, workers>>
        /\ UNCHANGED <<commitsChan, repoChan, rres, proc, fetched>>
        /\ UNCHANGED upstream

\* repoResolver: a repository received.
RepoResolverRecv ==
    /\ Quiet
    /\ Running
    /\ rres.pc = "select"
    /\ repoChan # <<>>
    /\ repoChan' = Tail(repoChan)
    /\ rres' = [pc |-> "publish",
                pub |-> Publishing(RepoInfoCommand(Head(repoChan)), "repo")]
    /\ lastEvent' = NoEvent
    /\ UNCHANGED <<intentsQueue, scoutStore, scoutCancelled, sweep, yieldsQueue, locks, workers>>
    /\ UNCHANGED <<commitsChan, cres, monitorQueue, proc, fetched>>
    /\ UNCHANGED upstream

\* repoResolver: one turn of publishWithRetry's loop; its error is logged.
RepoResolverPublish(publishOk) ==
    LET turn == publishWithRetry(rres.pub, monitorQueue, proc.cancelled, publishOk)
    IN  /\ Quiet
        /\ Running
        /\ rres.pc = "publish"
        /\ monitorQueue' = turn.queue
        /\ rres' = IF turn.outcome = "retry" THEN [rres EXCEPT !.pub.i = turn.i]
                   ELSE Select
        /\ lastEvent' = PublishTurn("repo", rres.pub, turn.outcome)
        /\ UNCHANGED <<intentsQueue, scoutStore, scoutCancelled, sweep, yieldsQueue, locks, workers>>
        /\ UNCHANGED <<commitsChan, repoChan, cres, proc, fetched>>
        /\ UNCHANGED upstream

\* repoResolver: the receive from the closed and drained channel, or
\* `case <-ctx.Done()`: it returns.
RepoResolverReturn ==
    /\ Quiet
    /\ Running
    /\ rres.pc = "select"
    /\ (proc.closed /\ repoChan = <<>>) \/ proc.cancelled
    /\ rres' = [pc |-> "stopped"]
    /\ lastEvent' = NoEvent
    /\ UNCHANGED <<intentsQueue, scoutStore, scoutCancelled, sweep, yieldsQueue, locks, workers>>
    /\ UNCHANGED <<commitsChan, repoChan, cres, monitorQueue, proc, fetched>>
    /\ UNCHANGED upstream

\* main on SIGINT/SIGTERM: cancel().
HarvesterCancel ==
    /\ Quiet
    /\ Running
    /\ ~proc.cancelled
    /\ proc' = [proc EXCEPT !.cancelled = TRUE]
    /\ lastEvent' = [kind |-> "shutdown", chanBefore |-> commitsChan, cresBefore |-> cres,
                     queueBefore |-> monitorQueue]
    /\ UNCHANGED <<intentsQueue, scoutStore, scoutCancelled, sweep, yieldsQueue, locks, workers>>
    /\ UNCHANGED <<commitsChan, repoChan, cres, rres, monitorQueue, fetched>>
    /\ UNCHANGED upstream

\* main after cancel(): close(repoChan); close(commitsChan).
HarvesterCloseChans ==
    /\ Quiet
    /\ Running
    /\ proc.cancelled
    /\ ~proc.closed
    /\ proc' = [proc EXCEPT !.closed = TRUE]
    /\ lastEvent' = NoEvent
    /\ UNCHANGED <<intentsQueue, scoutStore, scoutCancelled, sweep, yieldsQueue, locks, workers>>
    /\ UNCHANGED <<commitsChan, repoChan, cres, rres, monitorQueue, fetched>>
    /\ UNCHANGED upstream

\* main from wg.Wait() on: every handleMessage has returned, main returns and the
\* process ends, wherever the resolvers are.
HarvesterExit ==
    /\ Quiet
    /\ Running
    /\ proc.closed
    /\ \A w \in Workers : workers[w].pc = "idle"
    /\ proc' = [proc EXCEPT !.exited = TRUE]
    /\ lastEvent' = [kind |-> "exit", chanBefore |-> commitsChan, cresBefore |-> cres]
    /\ UNCHANGED <<intentsQueue, scoutStore, scoutCancelled, sweep, yieldsQueue, locks, workers>>
    /\ UNCHANGED <<commitsChan, repoChan, cres, rres, monitorQueue, fetched>>
    /\ UNCHANGED upstream

\* The redis clock ticks: every lock key has one tick less to live, and a key
\* whose lockTTL has run out is gone.
RedisTick ==
    /\ Quiet
    /\ DOMAIN locks # {}
    /\ locks' = [k \in {j \in DOMAIN locks : locks[j] > 1} |-> locks[k] - 1]
    /\ lastEvent' = NoEvent
    /\ UNCHANGED <<intentsQueue, scoutStore, scoutCancelled, sweep, yieldsQueue, workers>>
    /\ UNCHANGED <<upstream, inner>>

\* ------------------------------------------------------- commit ingestion
\* Repository full names in their string order.
RepoOrder == << <<"a", "/", "a">>, <<"b", "/", "b">> >>
FullNames == {RepoOrder[i] : i \in DOMAIN RepoOrder}
RepoRank(name) == CHOOSE i \in DOMAIN RepoOrder : RepoOrder[i] = name
Hashes == 1..MaxHashes
AuthorIds == {1, 2}

\* The database's answers to the statements of one call: `fault` statements are
\* answered, the next one fails, and so does every statement after it (a failed
\* statement aborts its transaction, a lost connection stays lost); NoFault
\* answers them all.
NoFault == -1
Fails(fault) == fault = 0
Spend(fault) == IF fault > 0 THEN fault - 1 ELSE fault

\* GetRepo: SELECT * FROM repositories WHERE full_name = $1; no row is
\* pgx.ErrNoRows, here the nil pointer.
GetRepo(t, name) ==
    LET rows == {r \in t.repositories : r.fullName = name}
    IN  IF rows = {} THEN <<>> ELSE <<CHOOSE r \in rows : TRUE>>

ErrDuplicateKey == <<"pg: duplicate key value violates unique constraint">>

\* Faulty variant: on a conflict the whole row is replaced by the incoming one.
SaveRepoReplacing(t, repo) ==
    IF \E r \in t.repositories : r.id = repo.id /\ r.fullName # repo.fullName
    THEN [err |-> ErrDuplicateKey, tables |-> t]
    ELSE [err |-> ErrNone,
          tables |-> [t EXCEPT !.repositories =
                        {r \in @ : r.fullName # repo.fullName} \cup {repo}]]

\* pgStore.SaveRepo + SaveRepo: INSERT ... ON CONFLICT (full_name) DO UPDATE SET
\* watchers, stargazers, updated_at, language, forks; id is the primary key.
SaveRepo(t, repo) ==
    LET old == GetRepo(t, repo.fullName)
        row == [old[1] EXCEPT !.watchers = repo.watchers,
                              !.stargazers = repo.stargazers,
                              !.updatedAt = repo.updatedAt,
                              !.language = repo.language,
                              !.forks = repo.forks]
    IN  IF old # <<>>
        THEN [err |-> ErrNone,
              tables |-> [t EXCEPT !.repositories = (@ \ {old[1]}) \cup {row}]]
        ELSE IF \E r \in t.repositories : r.id = repo.id
        THEN [err |-> ErrDuplicateKey, tables |-> t]
        ELSE [err |-> ErrNone, tables |-> [t EXCEPT !.repositories = @ \cup {repo}]]

\* GetAuthor: SELECT * FROM authors WHERE id = $1.
GetAuthor(t, id) ==
    LET rows == {a \in t.authors : a.id = id}
    IN  IF rows = {} THEN <<>> ELSE <<CHOOSE a \in rows : TRUE>>

\* SaveAuthor: INSERT ... ON CONFLICT (id) DO UPDATE ... RETURNING *.
SaveAuthor(t, author) ==
    [t EXCEPT !.authors = {a \in @ : a.id # author.id} \cup {author}]

\* Faulty variant: an INSERT that no key stops.
SaveCommitAgain(t, row) == [t EXCEPT !.commits = Append(@, row)]

\* Faulty variant: ON CONFLICT (hash) DO UPDATE, the incoming row taking the place
\* of the stored one.
SaveCommitUpdating(t, row) ==
    IF \E i \in DOMAIN t.commits : t.commits[i].hash = row.hash
    THEN [t EXCEPT !.commits = [i \in DOMAIN @ |-> IF @[i].hash = row.hash THEN row ELSE @[i]]]
    ELSE [t EXCEPT !.commits = Append(@, row)]

\* SaveCommit: INSERT INTO commits ... ON CONFLICT (hash) DO NOTHING.
SaveCommit(t, row) ==
    IF \E i \in DOMAIN t.commits : t.commits[i].hash = row.hash THEN t
    ELSE [t EXCEPT !.commits = Append(@, row)]

\* The row SaveManyCommit hands to SaveCommit.
CommitRow(commit, repoID) ==
    [hash |-> commit.hash, authorId |-> commit.author.id, message |-> commit.message,
     createdAt |-> commit.createdAt, repositoryId |-> repoID]

\* pgStore.SaveManyCommit's loop inside the transaction: per commit GetAuthor (an
\* error other than no rows skips the commit), SaveAuthor when there is no row,
\* SaveCommit.
RECURSIVE SaveManyLoop(_, _, _, _)
SaveManyLoop(t, repoID, commits, fault) ==
    IF commits = <<>> THEN [err |-> ErrNone, tables |-> t, fault |-> fault]
    ELSE LET commit == Head(commits)
             known == GetAuthor(t, commit.author.id) # <<>>
             afterGet == Spend(fault)
             withAuthor == IF known THEN t ELSE SaveAuthor(t, commit.author)
             afterAuthor == IF known THEN afterGet ELSE Spend(afterGet)
         IN  IF Fails(fault) THEN SaveManyLoop(t, repoID, Tail(commits), fault)
             ELSE IF ~known /\ Fails(afterGet)
             THEN [err |-> Wrap("failed to save author", ErrStore), tables |-> t,
                   fault |-> afterGet]
             ELSE IF Fails(afterAuthor)
             THEN [err |-> Wrap("failed to save commit", ErrStore), tables |-> t,
                   fault |-> afterAuthor]
             ELSE SaveManyLoop(SaveCommit(withAuthor, CommitRow(commit, repoID)), repoID,
                               Tail(commits), Spend(afterAuthor))

\* Faulty variant: the statements run outside a transaction, so what was written
\* before an error stays.
SaveManyCommitUnbound(t, repoID, commits, fault) ==
    LET done == SaveManyLoop(t, repoID, commits, fault)
    IN  [err |-> done.err, tables |-> done.tables, fault |-> done.fault]

\* pgStore.SaveManyCommit: Begin, the loop, Commit; the deferred Rollback undoes
\* the transaction on every error, and the commit of an aborted transaction is a
\* rollback reported as an error.
SaveManyCommit(t, repoID, commits, fault) ==
    LET done == SaveManyLoop(t, repoID, commits, Spend(fault))
    IN  IF Fails(fault) THEN [err |-> ErrStore, tables |-> t, fault |-> fault]
        ELSE IF done.err # ErrNone THEN [err |-> done.err, tables |-> t, fault |-> done.fault]
        ELSE IF Fails(done.fault)
        THEN [err |-> Wrap("failed to commit transaction", ErrStore), tables |-> t,
              fault |-> done.fault]
        ELSE [err |-> ErrNone, tables |-> done.tables, fault |-> Spend(done.fault)]

\* sort.Slice by Repository.FullName, an insertion sort for slices this short.
RECURSIVE InsertByFullName(_, _)
InsertByFullName(sorted, commit) ==
    IF sorted = <<>> THEN <<commit>>
    ELSE IF RepoRank(commit.repository.fullName) < RepoRank(Head(sorted).repository.fullName)
    THEN <<commit>> \o sorted
    ELSE <<Head(sorted)>> \o InsertByFullName(Tail(sorted), commit)

RECURSIVE SortByFullName(_)
SortByFullName(commits) ==
    IF commits = <<>> THEN <<>>
    ELSE InsertByFullName(SortByFullName(SubSeq(commits, 1, Len(commits) - 1)),
                          commits[Len(commits)])

\* BatchSaveCommits' loop from index i on, with currentRepoName and
\* currentRepoCommits.
RECURSIVE BatchSaveLoop(_, _, _, _, _, _)
BatchSaveLoop(t, commits, i, currentRepoName, currentRepoCommits, fault) ==
    IF i > Len(commits) THEN [err |-> ErrNone, tables |-> t]
    ELSE LET commit == commits[i]
             group == IF i = Len(commits) THEN Append(currentRepoCommits, commit)
                      ELSE currentRepoCommits
             repo == GetRepo(t, commit.repository.fullName)
             saved == SaveManyCommit(t, repo[1].id, group, Spend(fault))
         IN  IF commit.repository.fullName # currentRepoName \/ i = Len(commits)
             THEN IF Fails(fault)
                  THEN [err |-> Wrap("failed to find repository", ErrStore), tables |-> t]
                  ELSE IF repo = <<>>
                  THEN [err |-> Wrap("failed to find repository", ErrNoRows), tables |-> t]
                  ELSE IF saved.err # ErrNone
                  THEN [err |-> Wrap("failed to save commits for repository", saved.err),
                        tables |-> saved.tables]
                  ELSE BatchSaveLoop(saved.tables, commits, i + 1,
                                     commit.repository.fullName, <<commit>>, saved.fault)
             ELSE BatchSaveLoop(t, commits, i + 1, currentRepoName,
                                Append(currentRepoCommits, commit), fault)

\* Service.BatchSaveCommits.
BatchSaveCommits(t, commits, fault) ==
    IF Len(commits) = 0 THEN [err |-> ErrNone, tables |-> t]
    ELSE LET sorted == SortByFullName(commits)
         IN  BatchSaveLoop(t, sorted, 1, sorted[1].repository.fullName, <<>>, fault)

\* Service.ProcessCommitCommands on one delivery of the Harvester's queue.
ProcessCommitCommands(command, fault) ==
    LET savedRepo == SaveRepo(tables, command.repo)
        saved == BatchSaveCommits(tables, command.commits, fault)
        log(err) == [kind |-> "ingest", command |-> command, served |-> fault = NoFault,
                     fault |-> fault, err |-> err, tablesBefore |-> tables]
    IN  /\ Quiet
        /\ IF command.kind = NewRepoInfoKind
           THEN IF Fails(fault)
                THEN /\ lastEvent' = log(Wrap("failed to save repo", ErrStore))
                     /\ UNCHANGED tables
                ELSE /\ tables' = savedRepo.tables
                     /\ lastEvent' = log(IF savedRepo.err = ErrNone THEN ErrNone
                                         ELSE Wrap("failed to save repo", savedRepo.err))
           ELSE IF Len(command.commits) = 0
           THEN /\ lastEvent' = log(<<"commits are missing in the payload">>)
                /\ UNCHANGED tables
           ELSE /\ tables' = saved.tables
                /\ lastEvent' = log(IF saved.err = ErrNone THEN ErrNone
                                    ELSE Wrap("failed to save commits", saved.err))
        /\ UNCHANGED <<now, intents, nextId, intentsChan, hs, bpc, ctxCancelled,
                       intentsQueue, publishedLog>>
        /\ UNCHANGED downstream

\* ------------------------------------------------------------------- Spec
Next ==
    \/ \E h \in Handlers, repoName \in RepoNames, startDate \in Dates,
          uuidOk \in BOOLEAN, dbOk \in BOOLEAN :
            CreateIntent(h, repoName, startDate, uuidOk, dbOk)
    \/ \E h \in Handlers, id \in Ids, dbOk \in BOOLEAN : UpdateIntentStatusFind(h, id, dbOk)
    \/ \E h \in Handlers, dbOk \in BOOLEAN : UpdateIntentStatusUpdate(h, dbOk)
    \/ \E h \in Handlers, id \in Ids, newDate \in Dates, dbOk \in BOOLEAN :
            ResetIntentStartDate(h, id, newDate, dbOk)
    \/ \E h \in Handlers : ChanSend(h)
    \/ \E marshalOk \in BOOLEAN, publishOk \in BOOLEAN : BroadcastPublish(marshalOk, publishOk)
    \/ \E dbOk \in BOOLEAN : BroadcastUpdate(dbOk)
    \/ BroadcastCtxDone
    \/ CancelCtx
    \/ Tick
    \/ Observe

Spec == Init /\ [][Next]_vars

\* ------------------------------------------------------------ the pipeline
\* Manager, Scout and Harvester together, for clients that create intents for the
\* repositories of PipelineRepos while the Manager's store and uuid source answer.
PipelineRepos == {<<"o", "/", "o">>}
PipelinePayloads ==
    {IntentPayload(id, repoName, 1) : id \in Ids, repoName \in PipelineRepos}
PipelineKeys == {RepoKey(p) : p \in PipelinePayloads}

PipelineNext ==
    \/ \E h \in Handlers, repoName \in PipelineRepos : CreateIntent(h, repoName, 1, TRUE, TRUE)
    \/ \E h \in Handlers : ChanSend(h)
    \/ \E publishOk \in BOOLEAN : BroadcastPublish(TRUE, publishOk)
    \/ BroadcastUpdate(TRUE)
    \/ \E redisOk \in BOOLEAN : ScoutProcessMessage(redisOk)
    \/ \E redisOk \in BOOLEAN : ScoutSweepStart(redisOk)
    \/ \E intent \in PipelinePayloads, publishOk \in BOOLEAN :
            ScoutSweepPublish(intent, publishOk)
    \/ \E w \in Workers, redisOk \in BOOLEAN : HarvesterHandle(w, redisOk)
    \/ \E w \in Workers : FetchInfoGet(w, FALSE)
    \/ \E w \in Workers : FetchCommitsList(w, 0, TRUE, TRUE)
    \/ \E w \in Workers, redisOk \in BOOLEAN : HarvesterDone(w, redisOk)
    \/ RedisTick
    \/ Observe

Pipeline == Init /\ [][PipelineNext]_vars

\* Every goroutine keeps running and every log line gets written; the Scout's
\* ticker keeps firing, redis keeps answering the sweep in the end, and a publish
\* of the sweep succeeds in the end.  A step waits for the last event to be taken,
\* so its turn comes again and again rather than staying: strong fairness.
PipelineFairness ==
    /\ SF_vars(Observe)
    /\ SF_vars(\E h \in Handlers : ChanSend(h))
    /\ SF_vars(\E publishOk \in BOOLEAN : BroadcastPublish(TRUE, publishOk))
    /\ SF_vars(BroadcastUpdate(TRUE))
    /\ SF_vars(ScoutProcessMessage(TRUE))
    /\ SF_vars(ScoutSweepStart(TRUE))
    /\ \A intent \in PipelinePayloads : SF_vars(ScoutSweepPublish(intent, TRUE))
    /\ SF_vars(\E w \in Workers, redisOk \in BOOLEAN : HarvesterHandle(w, redisOk))
    /\ \A w \in Workers : SF_vars(FetchInfoGet(w, FALSE))
    /\ \A w \in Workers : SF_vars(FetchCommitsList(w, 0, TRUE, TRUE))
    /\ SF_vars(\E w \in Workers, redisOk \in BOOLEAN : HarvesterDone(w, redisOk))

FairPipeline == Pipeline /\ PipelineFairness


\* ----------------------------------------------------------- the Harvester
HarvesterEvents == {IntentCommand(NewIntentKind, p) : p \in {q \in PipelinePayloads : q.id = 1}}

\* The Harvester started on a discovery.yields queue holding one new_intent
\* command, with redis, the API and the broker answering or not, the history
\* coming in pages, and a shutdown at any moment.
HarvesterInit == Started /\ yieldsQueue \in {<<event>> : event \in HarvesterEvents}

HarvesterNext ==
    \/ \E w \in Workers, redisOk \in BOOLEAN : HarvesterHandle(w, redisOk)
    \/ \E w \in Workers, apiOk \in BOOLEAN : FetchInfoGet(w, apiOk)
    \/ \E w \in Workers, viaCtx \in BOOLEAN : FetchInfoSend(w, viaCtx)
    \/ \E w \in Workers, n \in 0..MaxCommits, last \in BOOLEAN, apiOk \in BOOLEAN :
            FetchCommitsList(w, n, last, apiOk)
    \/ \E w \in Workers, viaCtx \in BOOLEAN : FetchCommitsSend(w, viaCtx)
    \/ \E w \in Workers, redisOk \in BOOLEAN : HarvesterDone(w, redisOk)
    \/ CommitsResolverRecv
    \/ CommitsResolverIdle
    \/ CommitsResolverClosed
    \/ CommitsResolverCtxDone
    \/ \E publishOk \in BOOLEAN : CommitsResolverPublish(publishOk)
    \/ RepoResolverRecv
    \/ \E publishOk \in BOOLEAN : RepoResolverPublish(publishOk)
    \/ RepoResolverReturn
    \/ HarvesterCancel
    \/ HarvesterCloseChans
    \/ HarvesterExit
    \/ RedisTick
    \/ Observe

Harvester == HarvesterInit /\ [][HarvesterNext]_vars

\* ------------------------------------------------------------- the lock
\* The Harvester started on a queue of up to MaxQueue commands for one
\* repository, its workers contending for the repository's lock: redis and the
\* API answer or not, the broker answers, a history is one page of at most one
\* commit, and nothing shuts the process down.
LockingInit == Started /\ yieldsQueue \in SeqsUpTo(HarvesterEvents, MaxQueue)

LockingSteps ==
    \/ \E w \in Workers, redisOk \in BOOLEAN : HarvesterHandle(w, redisOk)
    \/ \E w \in Workers, apiOk \in BOOLEAN : FetchInfoGet(w, apiOk)
    \/ \E w \in Workers : FetchInfoSend(w, FALSE)
    \/ \E w \in Workers, n \in 0..1, apiOk \in BOOLEAN : FetchCommitsList(w, n, TRUE, apiOk)
    \/ \E w \in Workers : FetchCommitsSend(w, FALSE)
    \/ \E w \in Workers, redisOk \in BOOLEAN : HarvesterDone(w, redisOk)
    \/ CommitsResolverRecv
    \/ CommitsResolverIdle
    \/ CommitsResolverPublish(TRUE)
    \/ RepoResolverRecv
    \/ RepoResolverPublish(TRUE)
    \/ Observe

\* With the lock's time to live running out.
LockingNext == LockingSteps \/ RedisTick

Locking == LockingInit /\ [][LockingNext]_vars

\* Within the lock's time to live.
LockingHeld == LockingInit /\ [][LockingSteps]_vars

\* ------------------------------------------------------------ the shutdown
\* One worker of the Harvester on one new_intent command, redis answering, the
\* API and the broker answering or not, a history of one page of at most one
\* commit, and a shutdown at any moment.
ShutdownNext ==
    \/ HarvesterHandle(1, TRUE)
    \/ \E apiOk \in BOOLEAN : FetchInfoGet(1, apiOk)
    \/ \E viaCtx \in BOOLEAN : FetchInfoSend(1, viaCtx)
    \/ \E n \in 0..1, apiOk \in BOOLEAN : FetchCommitsList(1, n, TRUE, apiOk)
    \/ \E viaCtx \in BOOLEAN : FetchCommitsSend(1, viaCtx)
    \/ HarvesterDone(1, TRUE)
    \/ CommitsResolverRecv
    \/ CommitsResolverIdle
    \/ CommitsResolverClosed
    \/ CommitsResolverCtxDone
    \/ \E publishOk \in BOOLEAN : CommitsResolverPublish(publishOk)
    \/ RepoResolverRecv
    \/ \E publishOk \in BOOLEAN : RepoResolverPublish(publishOk)
    \/ RepoResolverReturn
    \/ HarvesterCancel
    \/ HarvesterCloseChans
    \/ HarvesterExit
    \/ Observe

Shutdown == HarvesterInit /\ [][ShutdownNext]_vars

\* Every API call returns, every goroutine that can take a step takes one in the
\* end, and every log line gets written.  Which ready case a select takes is
\* left open.
ShutdownFairness ==
    /\ SF_vars(Observe)
    /\ SF_vars(HarvesterHandle(1, TRUE))
    /\ SF_vars(\E apiOk \in BOOLEAN : FetchInfoGet(1, apiOk))
    /\ SF_vars(\E viaCtx \in BOOLEAN : FetchInfoSend(1, viaCtx))
    /\ SF_vars(\E n \in 0..1, apiOk \in BOOLEAN : FetchCommitsList(1, n, TRUE, apiOk))
    /\ SF_vars(\E viaCtx \in BOOLEAN : FetchCommitsSend(1, viaCtx))
    /\ SF_vars(HarvesterDone(1, TRUE))
    /\ SF_vars(CommitsResolverRecv)
    /\ SF_vars(\E publishOk \in BOOLEAN : CommitsResolverPublish(publishOk))
    /\ SF_vars(RepoResolverRecv)
    /\ SF_vars(\E publishOk \in BOOLEAN : RepoResolverPublish(publishOk))

FairShutdown == Shutdown /\ ShutdownFairness

\* ----------------------------------------------------------- the deliveries
\* The Harvester started on a queue of up to MaxQueue bodies for one repository:
\* commands of every kind and bodies that are not JSON.  redis answers or not,
\* the API and the broker answer, a history is one page of at most one commit,
\* the lock outlives the harvest and nothing shuts the process down.
HandlingBodies ==
    {IntentCommand(kind, p) : kind \in {NewIntentKind, UpdateIntentKind, CancelIntentKind},
                              p \in {q \in PipelinePayloads : q.id = 1}}
    \cup {Unparsable}

HandlingInit == Started /\ yieldsQueue \in SeqsUpTo(HandlingBodies, MaxQueue)

HandlingNext ==
    \/ \E w \in Workers, redisOk \in BOOLEAN : HarvesterHandle(w, redisOk)
    \/ \E w \in Workers : FetchInfoGet(w, TRUE)
    \/ \E w \in Workers : FetchInfoSend(w, FALSE)
    \/ \E w \in Workers, n \in 0..1 : FetchCommitsList(w, n, TRUE, TRUE)
    \/ \E w \in Workers : FetchCommitsSend(w, FALSE)
    \/ \E w \in Workers, redisOk \in BOOLEAN : HarvesterDone(w, redisOk)
    \/ CommitsResolverRecv
    \/ CommitsResolverIdle
    \/ CommitsResolverPublish(TRUE)
    \/ RepoResolverRecv
    \/ RepoResolverPublish(TRUE)
    \/ Observe

Handling == HandlingInit /\ [][HandlingNext]_vars

\* ------------------------------------------------------------ ingestion
\* The Manager fed new_repo_info commands and new_commits commands of up to
\* MaxBatch commits over two repositories, the same ones again and again, with
\* the database failing at any statement or at none.
IngestRepositories == {ModelRepository(RepoRank(fullName), fullName, 1, 1, 1, 1) : fullName \in FullNames}
IngestCommits ==
    {ModelCommit(hash, ModelAuthor(1, 1), 1, 1, fullName) :
        hash \in Hashes, fullName \in FullNames}
IngestCommands ==
    {RepoInfoCommand(repo) : repo \in IngestRepositories}
    \cup {CommitsCommand(batch) : batch \in SeqsUpTo(IngestCommits, MaxBatch)}
IngestFaults == {NoFault} \cup 0..MaxFault

IngestionNext ==
    \/ \E command \in IngestCommands, fault \in IngestFaults :
            ProcessCommitCommands(command, fault)
    \/ Observe

Ingestion == Init /\ [][IngestionNext]_vars

\* ------------------------------------------------------------- records
\* The Manager fed new_repo_info commands that differ in id, counts, language
\* and dates, and new_commits commands of one commit that differ in author,
\* message, date and repository, with the database answering or not.
RecordVariants == {1, 2}
RecordRepositories ==
    {ModelRepository(id, fullName, v, v, id, v) :
        id \in {1, 2}, fullName \in FullNames, v \in RecordVariants}
RecordCommits ==
    {ModelCommit(1, ModelAuthor(id, v), v, v, fullName) :
        id \in AuthorIds, v \in RecordVariants, fullName \in FullNames}
RecordCommands ==
    {RepoInfoCommand(repo) : repo \in RecordRepositories}
    \cup {CommitsCommand(<<commit>>) : commit \in RecordCommits}

RecordsNext ==
    \/ \E command \in RecordCommands, fault \in {NoFault, 0} :
            ProcessCommitCommands(command, fault)
    \/ Observe

Records == Init /\ [][RecordsNext]_vars

\* --------------------------------------------------------- attribution
\* The Manager fed what the Harvester publishes: new_repo_info commands and the
\* new_commits commands publishCommitsBatch builds from batches of CommitResults
\* over two repositories, with the database answering or not.
HarvestKeys == {<<Split(fullName)[1], Split(fullName)[2]>> : fullName \in FullNames}
HarvestResults == {CommitResult(key, sha, 1) : key \in HarvestKeys, sha \in 1..MaxCommits}
AttributionCommands ==
    {RepoInfoCommand(repo) : repo \in IngestRepositories}
    \cup {publishCommitsBatch(batch) : batch \in SeqsUpTo(HarvestResults, BatchSize) \ {<<>>}}

AttributionNext ==
    \/ \E command \in AttributionCommands, fault \in {NoFault, 0} :
            ProcessCommitCommands(command, fault)
    \/ Observe

Attribution == Init /\ [][AttributionNext]_vars

\* ------------------------------------------------------------- the Scout
\* The Scout alone, fed new_intent, update_intent and cancel_intent commands for two
\* repositories, with redis and the broker answering or not.
ScoutRepos == {<<"o", "/", "o">>, <<"o", "o", "/", "o">>}
ScoutCommands ==
    {IntentCommand(kind, IntentPayload(1, repoName, 1)) :
        kind \in {NewIntentKind, UpdateIntentKind, CancelIntentKind}, repoName \in ScoutRepos}
ScoutPayloads == {cmd.intent : cmd \in ScoutCommands}

ScoutNext ==
    \/ \E cmd \in ScoutCommands : IntentsPublished(cmd)
    \/ \E redisOk \in BOOLEAN : ScoutProcessMessage(redisOk)
    \/ \E redisOk \in BOOLEAN : ScoutSweepStart(redisOk)
    \/ \E intent \in ScoutPayloads, publishOk \in BOOLEAN : ScoutSweepPublish(intent, publishOk)
    \/ YieldsDelivered
    \/ Observe

Scout == Init /\ [][ScoutNext]_vars

\* ============================================================= properties
\* What the callers are promised, stated over the names and not over the parsing
\* code: an identifier is valid when it holds exactly one '/' with text on both
\* sides of it.
Slashes(name) == {i \in 1..Len(name) : name[i] = "/"}
ValidRepoId(name) ==
    /\ Cardinality(Slashes(name)) = 1
    /\ name[1] # "/"
    /\ name[Len(name)] # "/"
SlashAt(name) == CHOOSE i \in Slashes(name) : TRUE
OwnerOf(name) == SubSeq(name, 1, SlashAt(name) - 1)
NameOf(name) == SubSeq(name, SlashAt(name) + 1, Len(name))

Returned(op) == lastEvent.kind = "return" /\ lastEvent.op = op
Logged(outcome) == lastEvent.kind = "broadcast" /\ lastEvent.outcome = outcome

\* C1: CreateIntent with a valid repository identifier and a start date that is not
\* in the future, served by the store and the uuid source, stores a new intent
\* with status pending_broadcast and is_active true, puts exactly one new_intent
\* command for it on the channel, and returns the stored intent.
C1_CreateIntentPersistsAndEnqueues ==
    ( /\ Returned("CreateIntent")
      /\ ValidRepoId(lastEvent.args.repoName)
      /\ lastEvent.args.startDate <= lastEvent.args.at
      /\ lastEvent.served )
    => /\ lastEvent.err = ErrNone
       /\ lastEvent.ret # <<>>
       /\ LET i == lastEvent.ret[1]
          IN  /\ i.id \notin DOMAIN lastEvent.tableAtCall
              /\ i.id \in DOMAIN intents
              /\ intents[i.id] = i
              /\ i.repoName = lastEvent.args.repoName
              /\ i.startDate = lastEvent.args.startDate
              /\ i.status = PendingBroadCast
              /\ i.isActive = TRUE
              /\ intentsChan = Append(lastEvent.chanBefore,
                     [kind |-> NewIntentKind,
                      intent |-> [id |-> i.id,
                                  owner |-> OwnerOf(i.repoName),
                                  name |-> NameOf(i.repoName),
                                  from |-> i.startDate,
                                  until |-> ZeroTime]])

\* A CreateIntent call has returned without an error.
C1_Witness == Returned("CreateIntent") /\ lastEvent.err = ErrNone

\* C2: CreateIntent with an identifier that does not hold exactly one '/', or has
\* an empty segment before or after it, fails with ErrInvalidRepository, stores
\* no intent and enqueues nothing.
C2_InvalidRepositoryRejected ==
    (Returned("CreateIntent") /\ ~ValidRepoId(lastEvent.args.repoName))
    => /\ lastEvent.err = ErrInvalidRepository
       /\ lastEvent.ret = <<>>
       /\ intents = lastEvent.tableBefore
       /\ intentsChan = lastEvent.chanBefore

\* A CreateIntent call with exactly one '/' and an empty segment has returned.
C2_Witness ==
    /\ Returned("CreateIntent")
    /\ Cardinality(Slashes(lastEvent.args.repoName)) = 1
    /\ ~ValidRepoId(lastEvent.args.repoName)

\* C3 as written: with a start date strictly after the current time, CreateIntent
\* and ResetIntentStartDate both fail with ErrInvalidStartDate, whatever the other
\* arguments are.
C3_FutureStartDateRejected_AnyRepo ==
    /\ (Returned("CreateIntent") /\ lastEvent.args.startDate > lastEvent.args.at)
       => lastEvent.err = ErrInvalidStartDate
    /\ (Returned("ResetIntentStartDate") /\ lastEvent.args.newDate > lastEvent.args.at)
       => lastEvent.err = ErrInvalidStartDate

\* C3: with a start date strictly after the current time, ResetIntentStartDate
\* fails with ErrInvalidStartDate, and so does CreateIntent when its repository
\* identifier is valid (the identifier is validated first); neither stores or
\* enqueues anything.
C3_FutureStartDateRejected ==
    /\ ( /\ Returned("CreateIntent")
         /\ ValidRepoId(lastEvent.args.repoName)
         /\ lastEvent.args.startDate > lastEvent.args.at )
       => /\ lastEvent.err = ErrInvalidStartDate
          /\ intents = lastEvent.tableBefore
          /\ intentsChan = lastEvent.chanBefore
    /\ (Returned("ResetIntentStartDate") /\ lastEvent.args.newDate > lastEvent.args.at)
       => /\ lastEvent.err = ErrInvalidStartDate
          /\ intents = lastEvent.tableBefore
          /\ intentsChan = lastEvent.chanBefore

\* A CreateIntent call with a valid identifier and a future start date has returned.
C3_Witness ==
    /\ Returned("CreateIntent")
    /\ ValidRepoId(lastEvent.args.repoName)
    /\ lastEvent.args.startDate > lastEvent.args.at

\* C4: UpdateIntentStatus on a stored intent, served by the store, flips is_active
\* and puts exactly one command for the intent on the channel: cancel_intent if
\* the intent was active before the call, new_intent if it was inactive.
C4_ToggleFlipsAndEnqueues ==
    ( /\ Returned("UpdateIntentStatus")
      /\ lastEvent.args.id \in DOMAIN lastEvent.tableAtCall
      /\ lastEvent.served )
    => LET id == lastEvent.args.id
           was == lastEvent.tableAtCall[id]
       IN  /\ lastEvent.err = ErrNone
           /\ intents[id].isActive = ~was.isActive
           /\ Len(intentsChan) = Len(lastEvent.chanBefore) + 1
           /\ SubSeq(intentsChan, 1, Len(lastEvent.chanBefore)) = lastEvent.chanBefore
           /\ intentsChan[Len(intentsChan)].intent.id = id
           /\ intentsChan[Len(intentsChan)].kind =
                  IF was.isActive THEN CancelIntentKind ELSE NewIntentKind

\* C5: UpdateIntentStatus with an id that no stored intent has, served by the
\* store, fails with ErrIntentNotFound, changes no intent and enqueues nothing.
C5_ToggleUnknownIdNotFound ==
    ( /\ Returned("UpdateIntentStatus")
      /\ lastEvent.args.id \notin DOMAIN lastEvent.tableAtCall
      /\ lastEvent.served )
    => /\ lastEvent.err = ErrIntentNotFound
       /\ intents = lastEvent.tableAtCall
       /\ intentsChan = lastEvent.chanBefore

\* C6: ResetIntentStartDate on a stored intent with a date that is not in the
\* future, served by the store, stores the new start date and puts exactly one
\* update_intent command on the channel whose 'from' is the new date.
C6_ResetPersistsAndEnqueues ==
    ( /\ Returned("ResetIntentStartDate")
      /\ lastEvent.args.id \in DOMAIN lastEvent.tableAtCall
      /\ lastEvent.args.newDate <= lastEvent.args.at
      /\ lastEvent.served )
    => LET id == lastEvent.args.id
       IN  /\ lastEvent.err = ErrNone
           /\ intents[id].startDate = lastEvent.args.newDate
           /\ Len(intentsChan) = Len(lastEvent.chanBefore) + 1
           /\ SubSeq(intentsChan, 1, Len(lastEvent.chanBefore)) = lastEvent.chanBefore
           /\ intentsChan[Len(intentsChan)].kind = UpdateIntentKind
           /\ intentsChan[Len(intentsChan)].intent.id = id
           /\ intentsChan[Len(intentsChan)].intent.from = lastEvent.args.newDate

\* The commands published so far for intent id.
PublishedFor(id) == {k \in 1..Len(publishedLog) : publishedLog[k].intent.id = id}

\* C7: when the broadcast loop has taken the new_intent command of a created
\* intent and published it, and the database has answered the status update, the
\* intent's status is success_broadcast and exactly one command for the intent
\* has been published, the new_intent command CreateIntent enqueued.
C7_BroadcastCycleMarksSuccess ==
    ( /\ Logged("updated") \/ Logged("update_failed")
      /\ lastEvent.served
      /\ lastEvent.cmd.kind = NewIntentKind )
    => LET id == lastEvent.cmd.intent.id
       IN  /\ Logged("updated")
           /\ bpc = Select
           /\ id \in DOMAIN intents
           /\ intents[id].status = SuccessBroadCast
           /\ lastEvent.tableBefore[id].status = PendingBroadCast
           /\ Cardinality(PublishedFor(id)) = 1
           /\ \A k \in PublishedFor(id) :
                  /\ publishedLog[k] = lastEvent.cmd
                  /\ publishedLog[k].intent.owner = OwnerOf(intents[id].repoName)
                  /\ publishedLog[k].intent.name = NameOf(intents[id].repoName)
                  /\ publishedLog[k].intent.from = intents[id].startDate

\* A broadcast pass has published a new_intent command and updated the store.
C7_Witness == Logged("updated") /\ lastEvent.cmd.kind = NewIntentKind

\* C8: when the publish of a command fails, the loop is back at its select, ready
\* for the next queued command, nothing has been published or stored by the
\* pass, and the intent's status is still pending_broadcast.
C8_PublishFailureKeepsPending ==
    Logged("publish_failed")
    => LET id == lastEvent.cmd.intent.id
       IN  /\ bpc = Select
           /\ intents = lastEvent.tableBefore
           /\ id \in DOMAIN intents
           /\ intents[id].status = PendingBroadCast
           /\ PublishedFor(id) = {}

\* A publish has failed while another call is waiting to put its command on the
\* channel.
C8_Witness == Logged("publish_failed") /\ \E h \in Handlers : hs[h].pc = "send"

\* C9: the broadcast loop is stopped only when its context has been cancelled
\* (the channel is never closed): no failure while handling one command, of the
\* marshal, the publish or the store's status update, stops it.
C9_LoopStopsOnlyOnCancel ==
    bpc.pc = "stopped" => ctxCancelled

\* A sweep of the Scout has put a new_intent command on discovery.yields.
SweepPublished == lastEvent.kind = "sweep_publish" /\ lastEvent.ok
HarvestDropped == lastEvent.kind = "harvest" /\ lastEvent.outcome = "dropped"

\* C10, first half: an intent whose publish by the Manager's broadcast loop failed,
\* and which therefore stays pending_broadcast, is later published by a sweep of
\* the Scout.
C10_FailedPublishRebroadcast ==
    \A id \in Ids :
        (Logged("publish_failed") /\ lastEvent.cmd.intent.id = id)
        ~> (SweepPublished /\ lastEvent.intent.id = id)

\* C10, second half: a repository whose command the Harvester dropped because it
\* did not get the lock is later published again by a sweep of the Scout.
C10_DroppedHarvestRebroadcast ==
    \A key \in PipelineKeys :
        (HarvestDropped /\ RepoKey(lastEvent.event.intent) = key)
        ~> (SweepPublished /\ RepoKey(lastEvent.intent) = key)

\* C10: every stored intent that stays pending_broadcast because its publish
\* failed, and every intent whose harvest was dropped on a failed lock attempt, is
\* in the end broadcast again as a command by a later sweep of the Scout, when the
\* Scout's timer keeps firing and publishes succeed in the end.
C10_EventuallyRebroadcast ==
    C10_FailedPublishRebroadcast /\ C10_DroppedHarvestRebroadcast

Harvested == lastEvent.kind = "harvest"
Holders(key) == {w \in Workers : workers[w].pc = "harvest" /\ workers[w].key = key}

\* C11: an attempt to take the lock of a key that redis holds and whose time to
\* live has not run out is refused and leaves redis' entries as they were; an
\* attempt on a key that redis does not hold, never set or expired, succeeds and
\* creates the entry with the given time to live, the other entries staying as
\* they were; redis answering.
C11_AcquireLockSetsIfAbsent ==
    (Harvested /\ lastEvent.served) =>
        LET e == lastEvent
        IN  IF e.key \in DOMAIN e.locksBefore
            THEN /\ e.outcome = "dropped"
                 /\ locks = e.locksBefore
            ELSE /\ e.outcome = "locked"
                 /\ DOMAIN locks = DOMAIN e.locksBefore \cup {e.key}
                 /\ locks[e.key] = LockTTL
                 /\ \A k \in DOMAIN e.locksBefore : locks[k] = e.locksBefore[k]

\* A refused attempt on a key part of whose time to live has passed.
C11_Witness ==
    /\ Harvested
    /\ lastEvent.served
    /\ lastEvent.outcome = "dropped"
    /\ lastEvent.key \in DOMAIN lastEvent.locksBefore
    /\ lastEvent.locksBefore[lastEvent.key] < LockTTL

\* C12: of two commands for one repository handled at the same time within the
\* lock's time to live, one worker gets past the lock; the other's command is
\* dropped: it is not put back on the queue, nothing is pushed to the repository
\* or commits channel, nothing is published, and the worker is free again.
C12_SecondWorkerDropped ==
    /\ \A key \in PipelineKeys : Cardinality(Holders(key)) <= 1
    /\ (Harvested /\ lastEvent.holders # {}) => lastEvent.outcome = "dropped"
    /\ (Harvested /\ lastEvent.outcome = "dropped") =>
            /\ workers[lastEvent.worker] = Idle
            /\ yieldsQueue = Tail(lastEvent.queueBefore)
            /\ inner = lastEvent.innerBefore

\* A command dropped while another worker harvests its repository.
C12_Witness ==
    /\ Harvested
    /\ lastEvent.served
    /\ lastEvent.outcome = "dropped"
    /\ lastEvent.holders # {}

\* C13: in every reachable state at most one worker is the holder of a lock key,
\* a holder being a worker that took the lock and has not yet run its release.
C13_AtMostOneHolder ==
    \A key \in PipelineKeys : Cardinality(Holders(key)) <= 1

\* What worker w pushed and is not yet published: in a channel, in the pending
\* batch, or in a command a resolver is still publishing.
Unpublished(w) ==
    {commitsChan[i] : i \in {j \in DOMAIN commitsChan : commitsChan[j].by = w}}
    \cup {cres.batch[i] : i \in {j \in DOMAIN cres.batch : cres.batch[j].by = w}}
    \cup {repoChan[i] : i \in {j \in DOMAIN repoChan : repoChan[j].by = w}}
    \cup (IF rres.pc = "publish" /\ rres.pub.payload.repo.by = w
          THEN {rres.pub.payload.repo} ELSE {})

\* C14: a worker releases its lock only after both fetches are over and both
\* resolvers have drained what the worker pushed: at the release no commit or
\* repository record of that worker is still unpublished in a channel or in the
\* pending batch.
C14_ReleaseAfterResolversDrained ==
    lastEvent.kind = "release" =>
        /\ lastEvent.info.pc = "done"
        /\ lastEvent.commits.pc = "done"
        /\ Unpublished(lastEvent.worker) = {}

Received == lastEvent.kind = "recv"
Flushed(trigger) == lastEvent.kind = "flush" /\ lastEvent.trigger = trigger
Turned(resolver) == lastEvent.kind = "publish" /\ lastEvent.resolver = resolver
HashesOf(commits) == [i \in DOMAIN commits |-> commits[i].hash]
ShasOf(batch) == [i \in DOMAIN batch |-> batch[i].commit.sha]
PublishedBatch(trigger) ==
    /\ Turned("commits")
    /\ lastEvent.pub.trigger = trigger
    /\ lastEvent.outcome = "published"

\* C15: the commits resolver puts each item it receives on its pending batch, and
\* the item that brings the batch to the batch size makes it publish the batch:
\* one new_commits command holding exactly those items, in order, is added to the
\* queue when the broker takes it, and the pending batch is empty after.
C15_FullBatchPublishedOnce ==
    /\ cres.pc = "select" => Len(cres.batch) < BatchSize
    /\ Received =>
            LET fed == Append(lastEvent.batchBefore, lastEvent.item)
            IN  IF Len(fed) = BatchSize
                THEN /\ cres.pc = "publish"
                     /\ cres.pub.trigger = "size"
                     /\ cres.pub.payload.kind = NewCommitsKind
                     /\ HashesOf(cres.pub.payload.commits) = ShasOf(fed)
                ELSE /\ cres.pc = "select"
                     /\ cres.batch = fed
    /\ PublishedBatch("size") =>
            /\ Len(lastEvent.pub.payload.commits) = BatchSize
            /\ monitorQueue = Append(lastEvent.queueBefore, lastEvent.pub.payload)
            /\ cres = [pc |-> "select", batch |-> <<>>]

\* A full batch has been published.
C15_Witness == PublishedBatch("size")

\* C16: when the idle window passes with at least one item and fewer than the
\* batch size on the pending batch, the commits resolver publishes exactly those
\* items: one new_commits command holding them, in order, is added to the queue
\* when the broker takes it, and the pending batch is empty after.
C16_IdleFlushPublishesPending ==
    /\ Flushed("idle") =>
            /\ Len(lastEvent.batchBefore) \in 1..(BatchSize - 1)
            /\ cres.pc = "publish"
            /\ cres.pub.payload.kind = NewCommitsKind
            /\ HashesOf(cres.pub.payload.commits) = ShasOf(lastEvent.batchBefore)
            /\ commitsChan = lastEvent.chanBefore
    /\ PublishedBatch("idle") =>
            /\ Len(lastEvent.pub.payload.commits) \in 1..(BatchSize - 1)
            /\ monitorQueue = Append(lastEvent.queueBefore, lastEvent.pub.payload)
            /\ cres = [pc |-> "select", batch |-> <<>>]

\* A batch short of the batch size has been published after an idle window.
C16_Witness == PublishedBatch("idle")

\* C17: on shutdown the commits resolver's last flush, the broker not failing,
\* publishes the pending batch and leaves no commit behind in the channel.
C17_FinalFlushPublishesQueued ==
    (/\ Turned("commits")
     /\ lastEvent.pub.trigger \in {"cancel", "closed"}
     /\ lastEvent.outcome \notin {"retry", "gave_up"}) =>
        /\ lastEvent.outcome = "published"
        /\ commitsChan = <<>>

CallOver(resolver) == IF resolver = "commits" THEN cres.pc # "publish" ELSE rres.pc # "publish"
CallAt(resolver) == IF resolver = "commits" THEN cres.pub ELSE rres.pub

\* C18: a call of publishWithRetry makes at most maxRetries attempts; it returns
\* at the first attempt the broker takes, the command being on the queue once
\* more; it makes no attempt once the context is cancelled; and it returns with an
\* error, nothing published, after maxRetries failed attempts.
C18_PublishWithRetryBounded ==
    \A resolver \in {"commits", "repo"} :
        Turned(resolver) =>
            LET e == lastEvent
            IN  /\ e.pub.i < MaxRetries
                /\ proc.cancelled <=> e.outcome = "cancelled"
                /\ e.outcome = "published" =>
                        /\ monitorQueue = Append(e.queueBefore, e.pub.payload)
                        /\ CallOver(resolver)
                /\ e.outcome = "retry" =>
                        /\ monitorQueue = e.queueBefore
                        /\ ~CallOver(resolver)
                        /\ CallAt(resolver) = [e.pub EXCEPT !.i = e.pub.i + 1]
                        /\ e.pub.i + 1 < MaxRetries
                /\ e.outcome = "gave_up" =>
                        /\ monitorQueue = e.queueBefore
                        /\ CallOver(resolver)
                        /\ e.pub.i + 1 = MaxRetries
                /\ e.outcome = "cancelled" =>
                        /\ monitorQueue = e.queueBefore
                        /\ CallOver(resolver)

\* A call has given up after its last attempt failed.
C18_Witness ==
    /\ lastEvent.kind = "publish"
    /\ lastEvent.outcome = "gave_up"
    /\ lastEvent.pub.i + 1 = MaxRetries

OtherFetch(which) == IF which = "info" THEN "commits" ELSE "info"

\* C19: a failed fetch of the repository or of the commit history ends only that
\* fetch: the worker's other fetch is where it was and goes on, what was pushed
\* before is still in the channels and the pending batch for the resolvers, and
\* the worker, the resolvers and the process keep running.
C19_FetchFailureNotFatal ==
    lastEvent.kind = "fetch_failed" =>
        LET e == lastEvent
            w == e.worker
        IN  /\ workers[w].pc = "harvest"
            /\ workers[w][e.which].pc = "done"
            /\ workers[w][OtherFetch(e.which)] = e.workerBefore[OtherFetch(e.which)]
            /\ inner = e.innerBefore
            /\ Running

\* The history's fetch fails on the API after commits of an earlier page were
\* pushed, while the repository's fetch is still on its way.
C19_Witness ==
    /\ lastEvent.kind = "fetch_failed"
    /\ lastEvent.which = "commits"
    /\ lastEvent.err = ErrApi
    /\ commitsChan # <<>> \/ cres.batch # <<>>
    /\ workers[lastEvent.worker].info.pc # "done"

Ingested ==
    /\ lastEvent.kind = "ingest"
    /\ lastEvent.served
    /\ lastEvent.command.kind = NewCommitsKind

RowsOf(hash) == {i \in DOMAIN tables.commits : tables.commits[i].hash = hash}

\* C20: the ingestion of commits is idempotent: with the database answering,
\* processing a new_commits command that has just been processed once more
\* leaves the commits table as it is; a command whose hashes are all stored
\* leaves it as it is; and there is never more than one row for a hash, and
\* exactly one for each hash of a command that was processed without error.
C20_IngestionIdempotent ==
    /\ \A hash \in Hashes : Cardinality(RowsOf(hash)) <= 1
    /\ Ingested =>
            LET e == lastEvent
                hashes == {e.command.commits[i].hash : i \in DOMAIN e.command.commits}
                stored == {e.tablesBefore.commits[i].hash : i \in DOMAIN e.tablesBefore.commits}
            IN  /\ BatchSaveCommits(tables, e.command.commits, NoFault).tables.commits = tables.commits
                /\ hashes \subseteq stored => tables.commits = e.tablesBefore.commits
                /\ e.err = ErrNone => \A hash \in hashes : Cardinality(RowsOf(hash)) = 1

\* A command processed without error all of whose commits were stored before.
C20_Witness ==
    /\ Ingested
    /\ lastEvent.err = ErrNone
    /\ lastEvent.command.commits # <<>>
    /\ \A i \in DOMAIN lastEvent.command.commits :
            \E j \in DOMAIN lastEvent.tablesBefore.commits :
                lastEvent.tablesBefore.commits[j].hash = lastEvent.command.commits[i].hash

StoredBefore(hash) ==
    \E j \in DOMAIN lastEvent.tablesBefore.commits :
        lastEvent.tablesBefore.commits[j].hash = hash

\* C21: after a new_commits batch, batches that mix repositories included, every
\* commit row the batch added carries the id of the Repository row whose full
\* name a commit of the batch with that hash carries.
C21_CommitsStoredUnderOwnRepository ==
    Ingested =>
        \A j \in DOMAIN tables.commits :
            ~StoredBefore(tables.commits[j].hash) =>
                \E i \in DOMAIN lastEvent.command.commits :
                    LET commit == lastEvent.command.commits[i]
                        repo == GetRepo(lastEvent.tablesBefore, commit.repository.fullName)
                    IN  /\ commit.hash = tables.commits[j].hash
                        /\ repo # <<>>
                        /\ repo[1].id = tables.commits[j].repositoryId

\* C22: after a new_commits batch with a group for a repository that has no
\* stored row, the commits of every repository that has one are stored, wherever
\* their group stands in the batch.
C22_OnlyUnknownGroupDropped ==
    Ingested =>
        \A i \in DOMAIN lastEvent.command.commits :
            GetRepo(lastEvent.tablesBefore, lastEvent.command.commits[i].repository.fullName) # <<>>
                => RowsOf(lastEvent.command.commits[i].hash) # {}

\* A new_commits batch of one repository that has a stored row: BatchSaveCommits
\* hands the whole batch to one SaveManyCommit call.
OneGroupSaved ==
    /\ lastEvent.kind = "ingest"
    /\ lastEvent.command.kind = NewCommitsKind
    /\ lastEvent.command.commits # <<>>
    /\ \A i \in DOMAIN lastEvent.command.commits :
            lastEvent.command.commits[i].repository.fullName
                = lastEvent.command.commits[1].repository.fullName
    /\ GetRepo(lastEvent.tablesBefore, lastEvent.command.commits[1].repository.fullName) # <<>>

\* C23: SaveManyCommit for one repository group is all-or-nothing: whatever
\* statement the database fails at, after the call either every commit of the
\* group has a row, or no commit row and no author row was added or changed.
C23_SaveManyCommitAllOrNothing ==
    OneGroupSaved =>
        \/ /\ lastEvent.err = ErrNone
           /\ \A i \in DOMAIN lastEvent.command.commits :
                    RowsOf(lastEvent.command.commits[i].hash) # {}
        \/ /\ lastEvent.err # ErrNone
           /\ tables = lastEvent.tablesBefore

\* A group of two new commits whose first was written inside the transaction
\* before a later statement failed.
C23_Witness ==
    /\ OneGroupSaved
    /\ lastEvent.fault >= 5
    /\ lastEvent.err # ErrNone
    /\ Len(lastEvent.command.commits) >= 2
    /\ \A i \in DOMAIN lastEvent.command.commits :
            ~StoredBefore(lastEvent.command.commits[i].hash)
    /\ lastEvent.command.commits[1].hash # lastEvent.command.commits[2].hash

\* A new_repo_info command the database answered.
RepoInfoIngested ==
    /\ lastEvent.kind = "ingest"
    /\ lastEvent.served
    /\ lastEvent.command.kind = NewRepoInfoKind

RepoBefore == GetRepo(lastEvent.tablesBefore, lastEvent.command.repo.fullName)
RepoAfter == GetRepo(tables, lastEvent.command.repo.fullName)

\* C24: new_repo_info upserts by full name: no two Repository rows share a full
\* name, and a command for a stored full name succeeds, gives the row the
\* incoming watchers, stars, forks, language and updated_at, keeps its id, full
\* name and created_at, and touches no other row.
C24_RepoUpsertByFullName ==
    /\ \A r1, r2 \in tables.repositories : r1.fullName = r2.fullName => r1 = r2
    /\ (RepoInfoIngested /\ RepoBefore # <<>>) =>
            /\ lastEvent.err = ErrNone
            /\ RepoAfter # <<>>
            /\ RepoAfter[1].watchers = lastEvent.command.repo.watchers
            /\ RepoAfter[1].stargazers = lastEvent.command.repo.stargazers
            /\ RepoAfter[1].forks = lastEvent.command.repo.forks
            /\ RepoAfter[1].language = lastEvent.command.repo.language
            /\ RepoAfter[1].updatedAt = lastEvent.command.repo.updatedAt
            /\ RepoAfter[1].id = RepoBefore[1].id
            /\ RepoAfter[1].fullName = RepoBefore[1].fullName
            /\ RepoAfter[1].createdAt = RepoBefore[1].createdAt
            /\ tables.repositories \ {RepoAfter[1]}
                    = lastEvent.tablesBefore.repositories \ {RepoBefore[1]}

\* A command for a stored full name that carries another id, another creation
\* date and other counts than the stored row.
C24_Witness ==
    /\ RepoInfoIngested
    /\ RepoBefore # <<>>
    /\ lastEvent.command.repo.id # RepoBefore[1].id
    /\ lastEvent.command.repo.createdAt # RepoBefore[1].createdAt
    /\ lastEvent.command.repo.watchers # RepoBefore[1].watchers
    /\ Cardinality(tables.repositories) = 2

\* C25: the updated_at of a stored Repository never decreases, whatever
\* new_repo_info commands arrive and in whatever order.
C25_UpdatedAtNeverDecreases ==
    (RepoInfoIngested /\ RepoBefore # <<>>) =>
        /\ RepoAfter # <<>>
        /\ RepoAfter[1].updatedAt >= RepoBefore[1].updatedAt

\* C26: after a new_commits command was ingested, the Author row with the id of
\* each of its commits' authors exists and carries the name, email and username
\* given in the commit, a row stored before included.
C26_AuthorsUpserted ==
    (Ingested /\ lastEvent.err = ErrNone) =>
        \A i \in DOMAIN lastEvent.command.commits :
            GetAuthor(tables, lastEvent.command.commits[i].author.id)
                = <<lastEvent.command.commits[i].author>>

\* C27: a stored Commit is immutable: ingesting a commit with a stored hash and
\* another message, author, date or repository raises no error when its
\* repository is stored, and every commit row stored before the command is
\* afterwards exactly as it was, whether the database answers or fails.
C27_StoredCommitImmutable ==
    (lastEvent.kind = "ingest" /\ lastEvent.command.kind = NewCommitsKind) =>
        /\ Len(tables.commits) >= Len(lastEvent.tablesBefore.commits)
        /\ \A j \in DOMAIN lastEvent.tablesBefore.commits :
                tables.commits[j] = lastEvent.tablesBefore.commits[j]
        /\ (/\ lastEvent.served
            /\ \A i \in DOMAIN lastEvent.command.commits :
                    GetRepo(lastEvent.tablesBefore,
                            lastEvent.command.commits[i].repository.fullName) # <<>>)
                => lastEvent.err = ErrNone

\* A commit ingested again under its stored hash with another message, author,
\* date and repository.
C27_Witness ==
    /\ Ingested
    /\ lastEvent.err = ErrNone
    /\ \E i \in DOMAIN lastEvent.command.commits, j \in DOMAIN lastEvent.tablesBefore.commits :
            LET commit == lastEvent.command.commits[i]
                row == lastEvent.tablesBefore.commits[j]
                repo == GetRepo(lastEvent.tablesBefore, commit.repository.fullName)
            IN  /\ row.hash = commit.hash
                /\ row.message # commit.message
                /\ row.authorId # commit.author.id
                /\ row.createdAt # commit.createdAt
                /\ repo # <<>>
                /\ row.repositoryId # repo[1].id

\* C29: every validation error of CreateIntent, an invalid repository
\* identifier as well as a start date in the future, is answered by
\* POST /intents with status 400.
C29_ValidationErrorsAre400 ==
    (Returned("CreateIntent")
     /\ (~ValidRepoId(lastEvent.args.repoName) \/ lastEvent.args.startDate > lastEvent.args.at))
    => CreateIntentResponse(lastEvent.err) = "400 Bad Request"

\* C30: an update of an intent that sets only some fields leaves the others as
\* they were: the broadcast loop's flip to success_broadcast changes neither
\* is_active nor the start date, a toggle of is_active changes neither status nor
\* start date, and a reset of the start date changes neither status nor is_active.
C30_PartialUpdateKeepsOtherFields ==
    /\ Logged("updated") =>
            LET id == lastEvent.cmd.intent.id
            IN  /\ intents[id].isActive = lastEvent.tableBefore[id].isActive
                /\ intents[id].startDate = lastEvent.tableBefore[id].startDate
    /\ (Returned("UpdateIntentStatus") /\ lastEvent.err = ErrNone) =>
            LET id == lastEvent.args.id
            IN  /\ intents[id].status = lastEvent.tableAtCall[id].status
                /\ intents[id].startDate = lastEvent.tableAtCall[id].startDate
    /\ (Returned("ResetIntentStartDate") /\ lastEvent.err = ErrNone) =>
            LET id == lastEvent.args.id
            IN  /\ intents[id].status = lastEvent.tableAtCall[id].status
                /\ intents[id].isActive = lastEvent.tableAtCall[id].isActive

Swept == lastEvent.kind = "sweep" /\ lastEvent.ok
SweepTurn == lastEvent.kind = "sweep_publish"

LastPublishedFor(id) ==
    publishedLog[CHOOSE k \in PublishedFor(id) : \A l \in PublishedFor(id) : l <= k]

\* Every Service call has returned and the broadcast loop has taken and handled
\* every command sent to it.
BroadcastDrained ==
    /\ \A h \in Handlers : hs[h].pc = "idle"
    /\ intentsChan = <<>>
    /\ bpc.pc = "select"

\* C31: once the UpdateIntentStatus calls on an intent have returned and the
\* broadcast loop has drained, the last command published for the intent agrees
\* with its stored activation: cancel_intent when is_active is false, new_intent
\* when it is true.
C31_LastCommandAgreesWithActivation ==
    (/\ Returned("UpdateIntentStatus")
     /\ lastEvent.served
     /\ BroadcastDrained
     /\ lastEvent.args.id \in DOMAIN intents
     /\ PublishedFor(lastEvent.args.id) # {}) =>
        LastPublishedFor(lastEvent.args.id).kind =
            IF intents[lastEvent.args.id].isActive THEN NewIntentKind ELSE CancelIntentKind

\* C32: during the Harvester's shutdown (cancel, close both channels, wait for
\* the workers) no fetch goroutine sends on a channel after it was closed: the
\* process never panics.
C32_NoSendOnClosedChannel == ~proc.panicked

\* How often a sha occurs in a sequence of CommitResults, and how often a hash
\* occurs in the new_commits commands of a queue.
Occurrences(batch, sha) == Cardinality({i \in DOMAIN batch : batch[i].commit.sha = sha})
PublishedOccurrences(queue, hash) ==
    Cardinality({<<k, i>> \in (DOMAIN queue) \X (1..BatchSize) :
                    /\ queue[k].kind = NewCommitsKind
                    /\ i \in DOMAIN queue[k].commits
                    /\ queue[k].commits[i].hash = hash})
Unsent(sha) ==
    Cardinality({w \in Workers : /\ workers[w].pc = "harvest"
                                 /\ workers[w].commits.pc = "send"
                                 /\ Occurrences(workers[w].commits.todo, sha) > 0})

\* C33: while publishes succeed and the context is not cancelled, every commit a
\* worker has sent into the commits channel is in one place only: waiting in the
\* channel, on the resolver's pending batch, or in exactly one published
\* new_commits command; none is lost and none is published twice.
C33_CommitsPublishedExactlyOnce ==
    \A sha \in 1..fetched :
        /\ PublishedOccurrences(monitorQueue, sha) <= 1
        /\ Unsent(sha) + Occurrences(commitsChan, sha) + Occurrences(cres.batch, sha)
                + PublishedOccurrences(monitorQueue, sha) = 1

\* Commits of two harvests have all been published, the last of them now.
C33_Witness ==
    /\ Turned("commits")
    /\ lastEvent.outcome = "published"
    /\ fetched = 2
    /\ \A sha \in 1..fetched : PublishedOccurrences(monitorQueue, sha) = 1

\* C34: a worker that fails before holding the lock, because the body does not
\* parse, the lock is held or the cache call fails, leaves the lock entries as
\* they are and ends; a worker reaches its harvest only through a lock attempt
\* that succeeded, and a lock entry is deleted only by the release of a worker
\* that is in its harvest for that key.
C34_OnlyHolderReleases ==
    /\ [](Harvested /\ lastEvent.outcome # "locked" =>
            /\ locks = lastEvent.locksBefore
            /\ workers[lastEvent.worker].pc = "idle")
    /\ [][\A w \in Workers :
            (workers[w].pc # "harvest" /\ workers'[w].pc = "harvest") =>
                /\ lastEvent'.kind = "harvest"
                /\ lastEvent'.worker = w
                /\ lastEvent'.outcome = "locked"
                /\ lastEvent'.key = workers'[w].key
                /\ lastEvent'.key \notin DOMAIN locks
                /\ lastEvent'.key \in DOMAIN locks']_vars
    /\ [][\A key \in DOMAIN locks :
            key \notin DOMAIN locks' =>
                /\ lastEvent'.kind = "release"
                /\ lastEvent'.key = key
                /\ workers[lastEvent'.worker].pc = "harvest"
                /\ workers[lastEvent'.worker].key = key]_vars

\* A command dropped because another worker holds the lock, redis answering.
C34_Witness ==
    /\ Harvested
    /\ lastEvent.outcome = "dropped"
    /\ lastEvent.served
    /\ lastEvent.holders # {}
    /\ lastEvent.key \in DOMAIN locks

\* C36: a cancel_intent command never starts a harvest: the lock is taken and
\* the fetches are started only for new_intent and update_intent commands.
C36_CancelStartsNoHarvest ==
    (Harvested /\ lastEvent.outcome = "locked") =>
        lastEvent.event.kind \in {NewIntentKind, UpdateIntentKind}

\* C35: every worker that acquires a repository lock releases it in the end,
\* whether its fetches succeed, fail or are cancelled and whether the channels
\* have room or not, every API call returning and the scheduler being fair.
C35_LockEventuallyReleased ==
    \A w \in Workers :
        (workers[w].pc = "harvest") ~> (lastEvent.kind = "release" /\ lastEvent.worker = w)

\* C37: once the Scout has processed a cancel_intent for a repository, no sweep
\* that starts later finds an intent for that repository until a new_intent for
\* it is processed; an update_intent after the cancel does not bring it back.
C37_CancelledStaysOut ==
    Swept => \A intent \in lastEvent.found : RepoKey(intent) \notin scoutCancelled

\* C38: a CreateIntent call that fails, on its validation, on the uuid or on the
\* store's save, enqueues no command and leaves the stored intents as they were:
\* the step that returns the error changes neither the table nor the channel nor
\* any call's pending send.
C38_FailedCreateChangesNothing ==
    [][(/\ lastEvent' # lastEvent
        /\ lastEvent'.kind = "return"
        /\ lastEvent'.op = "CreateIntent"
        /\ lastEvent'.err # ErrNone) =>
            /\ intents' = intents
            /\ intentsChan' = intentsChan
            /\ hs' = hs
            /\ lastEvent'.tableAtCall = intents]_vars

\* A CreateIntent whose save failed, with an intent stored before.
C38_Witness ==
    /\ Returned("CreateIntent")
    /\ lastEvent.err = ErrStore
    /\ lastEvent.tableAtCall # <<>>
    /\ intents = lastEvent.tableAtCall

\* C39: in every reachable state an intent whose stored status is
\* success_broadcast has had a command carrying its id published to the outbound
\* queue.
C39_SuccessMeansPublished ==
    \A id \in DOMAIN intents :
        intents[id].status = SuccessBroadCast => PublishedFor(id) # {}

\* Two intents stored, one marked success_broadcast, the other still pending.
C39_Witness ==
    \E id, other \in DOMAIN intents :
        /\ intents[id].status = SuccessBroadCast
        /\ intents[other].status = PendingBroadCast

\* The commit row stored under a hash.
RowOf(hash) == tables.commits[CHOOSE k \in RowsOf(hash) : TRUE]

\* C40: two harvested commits written by different authors are stored
\* referencing different Author rows: after a new_commits command built by the
\* Harvester is ingested, commits of the command that differ in their author's
\* name and email have rows with different author ids.
C40_DistinctAuthorsDistinctRows ==
    (Ingested /\ lastEvent.err = ErrNone) =>
        \A i, j \in DOMAIN lastEvent.command.commits :
            LET ci == lastEvent.command.commits[i]
                cj == lastEvent.command.commits[j]
            IN  (/\ ci.author.name # cj.author.name
                 /\ ci.author.email # cj.author.email
                 /\ RowsOf(ci.hash) # {}
                 /\ RowsOf(cj.hash) # {})
                    => RowOf(ci.hash).authorId # RowOf(cj.hash).authorId

====
